---- MODULE Spec2Model ----
(***************************************************************************)
(* Review Board web API (reviewboard/webapi/resources.py): the review,     *)
(* reply and comment resources and the review request draft resource,      *)
(* as a state machine over the rows of the database.  Every action is one  *)
(* HTTP request handled to completion; the race specifications split       *)
(* get_or_create into its storage steps.                                   *)
(***************************************************************************)
EXTENDS Integers, Sequences, FiniteSets, TLC

VARIABLES review_requests,      \* ReviewRequest rows: id -> record
          drafts,               \* ReviewRequestDraft rows: id -> record
          next_draft_id,        \* autoincrement of ReviewRequestDraft
          next_review_request_id,
          screenshots,          \* Screenshot rows: id -> record
          reviews,              \* Review rows (reviews and replies): id -> record
          next_review_id,       \* autoincrement of Review
          comments,             \* Comment rows (diff comments): id -> record
          next_comment_id,
          screenshot_comments,  \* ScreenshotComment rows: id -> record
          next_screenshot_comment_id,
          inflight,             \* requests between two storage steps (race specifications)
          profiles,             \* Profile rows: username -> the objects it starred
          resp                  \* the request handled last and its response

vars == <<review_requests, drafts, next_draft_id, next_review_request_id,
          screenshots, reviews, next_review_id, comments, next_comment_id,
          screenshot_comments, next_screenshot_comment_id, inflight, profiles,
          resp>>

review_vars == <<reviews, next_review_id>>
comment_vars == <<comments, next_comment_id,
                  screenshot_comments, next_screenshot_comment_id>>
draft_vars == <<review_requests, drafts, next_draft_id, next_review_request_id,
                screenshots>>

-----------------------------------------------------------------------------
(* Bounds *)

MaxReviews == 2              \* Review rows ever inserted
MaxComments == 2             \* Comment and ScreenshotComment rows ever inserted
MaxDrafts == 2               \* ReviewRequestDraft rows ever inserted
MaxReviewRequests == 1       \* ReviewRequest rows ever inserted
MaxLen == 4                  \* characters of a bugs_closed field sent
MaxListLen == 3              \* symbols of a target_groups or target_people field sent

-----------------------------------------------------------------------------
(* Values *)

NULL == 0                    \* a null foreign key
Absent == "<absent>"         \* a request field that was not sent

Users == {"alice", "bob"}    \* logged-in principals

DOES_NOT_EXIST == "DOES_NOT_EXIST"
PERMISSION_DENIED == "PERMISSION_DENIED"
INVALID_FORM_DATA == "INVALID_FORM_DATA"
INVALID_REPOSITORY == "INVALID_REPOSITORY"
OK == "200"
CREATED == "201"
SEE_OTHER == "303"
NO_CONTENT == "204"

\* webapi_request_fields parses a field declared 'type': bool
ParseBool(value) == value \in {"1", "True"}

\* Python truth of a raw form value, as in request.POST.get('public', False)
Truthy(value) == value # Absent /\ value # ""

\* the response to the request handled last: the operation, the status
\* code or error, and the id of the object the request named or created
NoRequest == [op |-> "none", code |-> "", id |-> NULL]

Response(op, code, id) == [op |-> op, code |-> code, id |-> id]

-----------------------------------------------------------------------------
(* Reviews and replies *)

\* the request fields of a review or reply create/update
ReviewPayload(ship_it, body_top, body_bottom, public) ==
    [ship_it |-> ship_it, body_top |-> body_top, body_bottom |-> body_bottom,
     public |-> public]

ReviewPayloads ==
    {ReviewPayload(Absent, Absent, Absent, Absent),
     ReviewPayload(Absent, "x", "y", Absent),
     ReviewPayload("1", Absent, Absent, "1"),
     ReviewPayload("0", Absent, Absent, "0")}

\* review_request_resource.get_object: ReviewRequest.objects.all().get(pk=...)
ReviewRequestExists(rrid) == rrid \in DOMAIN review_requests

\* a queryset of reviews that forgets the review request of the path
ReviewQuerysetOfAnyRequest(rs, rrid) ==
    {r \in DOMAIN rs : rs[r].base_reply_to = NULL}

\* ReviewResource.get_queryset, not a list: reviews of the review request
\* with base_reply_to null
ReviewQueryset(rs, rrid) ==
    {r \in DOMAIN rs : rs[r].review_request = rrid /\ rs[r].base_reply_to = NULL}

\* ReviewReplyResource.get_queryset: Review.objects.get(pk=review_id) must
\* exist, then the reviews of the review request whose base_reply_to it is
ReplyQueryset(rs, rrid, review_id) ==
    IF review_id \notin DOMAIN rs THEN {}
    ELSE {r \in DOMAIN rs : rs[r].review_request = rrid
                             /\ rs[r].base_reply_to = review_id}

\* a permission check that forgets the public flag
has_modify_permissions_of_author(rs, user, r) == rs[r].user = user

\* BaseReviewResource.has_modify_permissions
has_modify_permissions(rs, user, r) == ~rs[r].public /\ rs[r].user = user

\* a delete permission check that forgets the public flag
has_delete_permissions_of_author(rs, user, r) == rs[r].user = user

\* BaseReviewResource.has_delete_permissions
has_delete_permissions(rs, user, r) == ~rs[r].public /\ rs[r].user = user

\* a row as Review.objects.create leaves it: blank and private
NewReview(rrid, user, base) ==
    [review_request |-> rrid, user |-> user, public |-> FALSE,
     base_reply_to |-> base, ship_it |-> FALSE, body_top |-> "",
     body_bottom |-> "", body_top_reply_to |-> NULL,
     body_bottom_reply_to |-> NULL]

\* Review.publish: the review becomes public
Review_publish(review) == [review EXCEPT !.public = TRUE]

SetField(rec, field, value) ==
    IF value = Absent THEN rec ELSE [rec EXCEPT ![field] = value]

\* BaseReviewResource._update_review, once the permission check has passed
UpdatedReview(review, p) ==
    LET r1 == IF p.ship_it = Absent THEN review
              ELSE [review EXCEPT !.ship_it = ParseBool(p.ship_it)]
        r2 == SetField(r1, "body_top", p.body_top)
        r3 == SetField(r2, "body_bottom", p.body_bottom)
    IN  IF p.public # Absent /\ ParseBool(p.public) THEN Review_publish(r3) ELSE r3

\* an update of a reply that sets the texts and leaves the back-references
UpdatedWithoutReference(reply, p) == UpdatedReview(reply, p)

\* ReviewReplyResource._update_reply, once the permission check has passed
UpdatedReply(reply, p) ==
    LET r1 == IF p.body_top = Absent THEN reply
              ELSE [reply EXCEPT !.body_top = p.body_top,
                                 !.body_top_reply_to =
                                     IF p.body_top = "" THEN NULL
                                     ELSE reply.base_reply_to]
        r2 == IF p.body_bottom = Absent THEN r1
              ELSE [r1 EXCEPT !.body_bottom = p.body_bottom,
                              !.body_bottom_reply_to =
                                  IF p.body_bottom = "" THEN NULL
                                  ELSE reply.base_reply_to]
    IN  IF p.public # Absent /\ ParseBool(p.public) THEN Review_publish(r2) ELSE r2

\* a lookup that never finds a row: create instead of get_or_create
NoPendingReviews(rs, rrid, user, base) == {}

\* the lookup of Review.objects.get_or_create(review_request, user,
\* public=False, base_reply_to)
PendingReviews(rs, rrid, user, base) ==
    {r \in DOMAIN rs : /\ rs[r].review_request = rrid
                       /\ rs[r].user = user
                       /\ ~rs[r].public
                       /\ rs[r].base_reply_to = base}

Insert(table, id, row) == [i \in DOMAIN table \cup {id} |->
                              IF i = id THEN row ELSE table[i]]

Remove(table, ids) == [i \in DOMAIN table \ ids |-> table[i]]

\* BaseReviewResource._update_review: the tables after it and its result
update_review(rs, user, review_id, p) ==
    IF ~has_modify_permissions(rs, user, review_id)
    THEN [reviews |-> rs, code |-> PERMISSION_DENIED]
    ELSE [reviews |-> [rs EXCEPT ![review_id] = UpdatedReview(rs[review_id], p)],
          code |-> OK]

\* ReviewReplyResource._update_reply: the tables after it and its result
update_reply(rs, user, reply_id, p) ==
    IF ~has_modify_permissions(rs, user, reply_id)
    THEN [reviews |-> rs, code |-> PERMISSION_DENIED]
    ELSE [reviews |-> [rs EXCEPT ![reply_id] = UpdatedReply(rs[reply_id], p)],
          code |-> OK]

\* BaseReviewResource.create as ReviewResource: the rows after the request,
\* the status code and the id of the review the response names
ReviewCreateResult(user, rrid, p) ==
    IF ~ReviewRequestExists(rrid)
    THEN [reviews |-> reviews, next_review_id |-> next_review_id,
          code |-> DOES_NOT_EXIST, id |-> NULL]
    ELSE LET found == PendingReviews(reviews, rrid, user, NULL)
             is_new == found = {}
             id == IF is_new THEN next_review_id ELSE CHOOSE r \in found : TRUE
             got == IF is_new
                    THEN Insert(reviews, id, NewReview(rrid, user, NULL))
                    ELSE reviews
             result == update_review(got, user, id, p)
         IN  [reviews |-> result.reviews,
              next_review_id |-> IF is_new THEN next_review_id + 1
                                 ELSE next_review_id,
              code |-> IF result.code # OK THEN result.code
                       ELSE IF is_new THEN CREATED ELSE SEE_OTHER,
              id |-> id]

\* BaseReviewResource.update
ReviewUpdateResult(user, rrid, review_id, p) ==
    IF ~ReviewRequestExists(rrid) \/ review_id \notin ReviewQueryset(reviews, rrid)
    THEN [reviews |-> reviews, next_review_id |-> next_review_id,
          code |-> DOES_NOT_EXIST, id |-> review_id]
    ELSE LET result == update_review(reviews, user, review_id, p)
         IN  [reviews |-> result.reviews, next_review_id |-> next_review_id,
              code |-> result.code, id |-> review_id]

\* ReviewReplyResource.create
ReplyCreateResult(user, rrid, review_id, p) ==
    IF ~ReviewRequestExists(rrid) \/ review_id \notin ReviewQueryset(reviews, rrid)
    THEN [reviews |-> reviews, next_review_id |-> next_review_id,
          code |-> DOES_NOT_EXIST, id |-> review_id]
    ELSE LET found == PendingReviews(reviews, rrid, user, review_id)
             is_new == found = {}
             id == IF is_new THEN next_review_id ELSE CHOOSE r \in found : TRUE
             got == IF is_new
                    THEN Insert(reviews, id, NewReview(rrid, user, review_id))
                    ELSE reviews
             result == update_reply(got, user, id, p)
         IN  [reviews |-> result.reviews,
              next_review_id |-> IF is_new THEN next_review_id + 1
                                 ELSE next_review_id,
              code |-> IF result.code # OK THEN result.code
                       ELSE IF is_new THEN CREATED ELSE SEE_OTHER,
              id |-> id]

\* ReviewReplyResource.update
ReplyUpdateResult(user, rrid, review_id, reply_id, p) ==
    IF \/ ~ReviewRequestExists(rrid)
       \/ review_id \notin ReviewQueryset(reviews, rrid)
       \/ reply_id \notin ReplyQueryset(reviews, rrid, review_id)
    THEN [reviews |-> reviews, next_review_id |-> next_review_id,
          code |-> DOES_NOT_EXIST, id |-> reply_id]
    ELSE LET result == update_reply(reviews, user, reply_id, p)
         IN  [reviews |-> result.reviews, next_review_id |-> next_review_id,
              code |-> result.code, id |-> reply_id]

\* Review.delete: the review and all comments on it.  The storage cascades
\* along foreign keys: the replies whose base_reply_to is the review and the
\* comments whose reply_to is a deleted comment go with it, and a comment
\* left on a reply that went is on no review any more.
ReviewDeleted(review_id, code) ==
    LET replies == {r \in DOMAIN reviews : reviews[r].base_reply_to = review_id}
        own == {c \in DOMAIN comments : comments[c].review = review_id}
        gone == own \cup {c \in DOMAIN comments : comments[c].reply_to \in own}
        s_own == {c \in DOMAIN screenshot_comments :
                      screenshot_comments[c].review = review_id}
        s_gone == s_own \cup {c \in DOMAIN screenshot_comments :
                                  screenshot_comments[c].reply_to \in s_own}
    IN  [reviews |-> Remove(reviews, {review_id} \cup replies),
         comments |->
             [c \in DOMAIN comments \ gone |->
                 IF comments[c].review \in replies
                 THEN [comments[c] EXCEPT !.review = NULL] ELSE comments[c]],
         screenshot_comments |->
             [c \in DOMAIN screenshot_comments \ s_gone |->
                 IF screenshot_comments[c].review \in replies
                 THEN [screenshot_comments[c] EXCEPT !.review = NULL]
                 ELSE screenshot_comments[c]],
         code |-> code, id |-> review_id]

NothingDeleted(review_id, code) ==
    [reviews |-> reviews, comments |-> comments,
     screenshot_comments |-> screenshot_comments, code |-> code,
     id |-> review_id]

\* BaseReviewResource.delete as ReviewResource
ReviewDeleteResult(user, rrid, review_id) ==
    IF review_id \notin ReviewQueryset(reviews, rrid)
    THEN NothingDeleted(review_id, DOES_NOT_EXIST)
    ELSE IF ~has_delete_permissions(reviews, user, review_id)
    THEN NothingDeleted(review_id, PERMISSION_DENIED)
    ELSE ReviewDeleted(review_id, NO_CONTENT)

\* BaseReviewResource.delete as ReviewReplyResource
ReplyDeleteResult(user, rrid, review_id, reply_id) ==
    IF reply_id \notin ReplyQueryset(reviews, rrid, review_id)
    THEN NothingDeleted(reply_id, DOES_NOT_EXIST)
    ELSE IF ~has_delete_permissions(reviews, user, reply_id)
    THEN NothingDeleted(reply_id, PERMISSION_DENIED)
    ELSE ReviewDeleted(reply_id, NO_CONTENT)

\* a request on a review or a reply, handled to completion
ReviewRequestHandled(op, result) ==
    /\ result.next_review_id <= MaxReviews + 1
    /\ reviews' = result.reviews
    /\ next_review_id' = result.next_review_id
    /\ resp' = Response(op, result.code, result.id)
    /\ UNCHANGED <<profiles, draft_vars, comment_vars, inflight>>

ReviewDeleteHandled(op, result) ==
    /\ reviews' = result.reviews
    /\ comments' = result.comments
    /\ screenshot_comments' = result.screenshot_comments
    /\ resp' = Response(op, result.code, result.id)
    /\ UNCHANGED <<profiles, draft_vars, inflight, next_review_id, next_comment_id,
                   next_screenshot_comment_id>>

ReviewCreate(user, rrid, p) ==
    ReviewRequestHandled("review_create", ReviewCreateResult(user, rrid, p))

ReviewUpdate(user, rrid, review_id, p) ==
    ReviewRequestHandled("review_update",
                         ReviewUpdateResult(user, rrid, review_id, p))

ReviewDelete(user, rrid, review_id) ==
    ReviewDeleteHandled("review_delete", ReviewDeleteResult(user, rrid, review_id))

ReplyCreate(user, rrid, review_id, p) ==
    ReviewRequestHandled("reply_create",
                         ReplyCreateResult(user, rrid, review_id, p))

ReplyUpdate(user, rrid, review_id, reply_id, p) ==
    ReviewRequestHandled("reply_update",
                         ReplyUpdateResult(user, rrid, review_id, reply_id, p))

ReplyDelete(user, rrid, review_id, reply_id) ==
    ReviewDeleteHandled("reply_delete",
                        ReplyDeleteResult(user, rrid, review_id, reply_id))

-----------------------------------------------------------------------------
(* Diff comments *)

\* FileDiff rows: the review request whose diffset history holds the file diff
FileDiffReviewRequest == (1 :> 1) @@ (2 :> 1) @@ (3 :> 2)

\* Screenshot rows: the review request of the screenshot
ScreenshotReviewRequest == (1 :> 1) @@ (2 :> 2)

\* the Screenshot rows as uploaded: no caption staged
InitScreenshots == [i \in DOMAIN ScreenshotReviewRequest |-> [draft_caption |-> ""]]

\* BaseDiffCommentResource.get_queryset, without the list filters
DiffCommentQueryset(user, rrid) ==
    {c \in DOMAIN comments :
        /\ comments[c].review \in DOMAIN reviews
        /\ \/ reviews[comments[c].review].public
           \/ reviews[comments[c].review].user = user
        /\ FileDiffReviewRequest[comments[c].filediff] = rrid}

\* ReviewDiffCommentResource.get_queryset
ReviewDiffCommentQueryset(user, rrid, review_id) ==
    {c \in DiffCommentQueryset(user, rrid) : comments[c].review = review_id}

\* ReviewReplyDiffCommentResource.get_queryset
ReviewReplyDiffCommentQueryset(user, rrid, review_id, reply_id) ==
    {c \in DiffCommentQueryset(user, rrid) :
        /\ comments[c].review = reply_id
        /\ reviews[reply_id].base_reply_to = review_id}

\* a comment delete permission check that forgets the public flag
diff_comment_has_delete_permissions_of_author(user, c) ==
    reviews[comments[c].review].user = user

\* ReviewDiffCommentResource.has_delete_permissions
diff_comment_has_delete_permissions(user, c) ==
    LET review == reviews[comments[c].review]
    IN  ~review.public /\ review.user = user

\* ReviewReplyDiffCommentResource has no has_delete_permissions of its own:
\* the default of the base WebAPIResource applies
default_has_delete_permissions(user, c) == FALSE

\* the outcome of a request on a diff comment: the Comment rows after it,
\* the status code and the id of the comment (or of the review, on create)
DiffCommentResult(cs, next_id, code, id) ==
    [comments |-> cs, next_comment_id |-> next_id, code |-> code, id |-> id]

DiffCommentRefused(code, id) ==
    DiffCommentResult(comments, next_comment_id, code, id)

\* a validation that accepts every file diff
no_invalid_fields(rrid, filediff_id, interfilediff_id) == {}

\* ReviewDiffCommentResource.create: the keys of invalid_fields
DiffCommentInvalidFields(rrid, filediff_id, interfilediff_id) ==
    IF \/ filediff_id \notin DOMAIN FileDiffReviewRequest
       \/ FileDiffReviewRequest[filediff_id] # rrid
    THEN {"filediff_id"}
    ELSE IF interfilediff_id = NULL THEN {}
    ELSE IF interfilediff_id = filediff_id THEN {"interfilediff_id"}
    ELSE IF \/ interfilediff_id \notin DOMAIN FileDiffReviewRequest
            \/ FileDiffReviewRequest[interfilediff_id] #
                   FileDiffReviewRequest[filediff_id]
    THEN {"interfilediff_id"}
    ELSE {}

\* ReviewDiffCommentResource.create
DiffCommentCreateResult(user, rrid, review_id, filediff_id, interfilediff_id, p) ==
    IF ~ReviewRequestExists(rrid) \/ review_id \notin ReviewQueryset(reviews, rrid)
    THEN DiffCommentRefused(DOES_NOT_EXIST, review_id)
    ELSE IF ~has_modify_permissions(reviews, user, review_id)
    THEN DiffCommentRefused(PERMISSION_DENIED, review_id)
    ELSE IF DiffCommentInvalidFields(rrid, filediff_id, interfilediff_id) # {}
    THEN DiffCommentRefused(INVALID_FORM_DATA, review_id)
    ELSE DiffCommentResult(
             Insert(comments, next_comment_id,
                    [review |-> review_id, filediff |-> filediff_id,
                     interfilediff |-> interfilediff_id,
                     reply_to |-> NULL, text |-> p.text,
                     first_line |-> p.first_line,
                     num_lines |-> p.num_lines]),
             next_comment_id + 1, CREATED, next_comment_id)

\* the request fields of a diff comment create or update; a number that was
\* not sent is NULL
DiffCommentPayloads ==
    {[text |-> "a", first_line |-> 10, num_lines |-> 2],
     [text |-> Absent, first_line |-> 20, num_lines |-> NULL]}

\* ReviewDiffCommentResource.update
DiffCommentUpdateResult(user, rrid, review_id, comment_id, p) ==
    IF \/ ~ReviewRequestExists(rrid)
       \/ review_id \notin ReviewQueryset(reviews, rrid)
       \/ comment_id \notin ReviewDiffCommentQueryset(user, rrid, review_id)
    THEN DiffCommentRefused(DOES_NOT_EXIST, comment_id)
    ELSE IF ~has_modify_permissions(reviews, user, review_id)
    THEN DiffCommentRefused(PERMISSION_DENIED, comment_id)
    ELSE DiffCommentResult(
             [comments EXCEPT ![comment_id] =
                 [@ EXCEPT !.text = IF p.text = Absent THEN @ ELSE p.text,
                           !.first_line = IF p.first_line = NULL THEN @
                                          ELSE p.first_line,
                           !.num_lines = IF p.num_lines = NULL THEN @
                                         ELSE p.num_lines]],
             next_comment_id, OK, comment_id)

\* ReviewDiffCommentResource.delete
DiffCommentDeleteResult(user, rrid, review_id, comment_id) ==
    IF comment_id \notin ReviewDiffCommentQueryset(user, rrid, review_id)
    THEN DiffCommentRefused(DOES_NOT_EXIST, comment_id)
    ELSE IF ~diff_comment_has_delete_permissions(user, comment_id)
    THEN DiffCommentRefused(PERMISSION_DENIED, comment_id)
    ELSE DiffCommentResult(Remove(comments, {comment_id}), next_comment_id,
                           NO_CONTENT, comment_id)

\* a reply comment placed on the first line, whatever it replies to
UnanchoredReplyComment(reply_id, reply_to_id, comment, text) ==
    [review |-> reply_id, filediff |-> comment.filediff,
     interfilediff |-> NULL, reply_to |-> reply_to_id, text |-> text,
     first_line |-> 1, num_lines |-> 1]

\* the Comment row ReviewReplyDiffCommentResource.create builds from the
\* comment replied to, on the reply it is added to
ReplyComment(reply_id, reply_to_id, comment, text) ==
    [review |-> reply_id, filediff |-> comment.filediff,
     interfilediff |-> comment.interfilediff, reply_to |-> reply_to_id,
     text |-> text, first_line |-> comment.first_line,
     num_lines |-> comment.num_lines]

\* ReviewReplyDiffCommentResource.create
ReplyDiffCommentCreateResult(user, rrid, review_id, reply_id, reply_to_id, text) ==
    IF \/ ~ReviewRequestExists(rrid)
       \/ reply_id \notin ReplyQueryset(reviews, rrid, review_id)
    THEN DiffCommentRefused(DOES_NOT_EXIST, reply_id)
    ELSE IF ~has_modify_permissions(reviews, user, reply_id)
    THEN DiffCommentRefused(PERMISSION_DENIED, reply_id)
    ELSE IF reply_to_id \notin ReviewDiffCommentQueryset(user, rrid, review_id)
    THEN DiffCommentRefused(INVALID_FORM_DATA, reply_id)
    ELSE DiffCommentResult(
             Insert(comments, next_comment_id,
                    ReplyComment(reply_id, reply_to_id, comments[reply_to_id],
                                 text)),
             next_comment_id + 1, CREATED, next_comment_id)

\* ReviewReplyDiffCommentResource.update
ReplyDiffCommentUpdateResult(user, rrid, review_id, reply_id, comment_id, text) ==
    IF \/ ~ReviewRequestExists(rrid)
       \/ reply_id \notin ReplyQueryset(reviews, rrid, review_id)
       \/ comment_id \notin
              ReviewReplyDiffCommentQueryset(user, rrid, review_id, reply_id)
    THEN DiffCommentRefused(DOES_NOT_EXIST, comment_id)
    ELSE IF ~has_modify_permissions(reviews, user, reply_id)
    THEN DiffCommentRefused(PERMISSION_DENIED, comment_id)
    ELSE DiffCommentResult([comments EXCEPT ![comment_id].text = text],
                           next_comment_id, OK, comment_id)

\* ReviewReplyDiffCommentResource.delete
ReplyDiffCommentDeleteResult(user, rrid, review_id, reply_id, comment_id) ==
    IF comment_id \notin
           ReviewReplyDiffCommentQueryset(user, rrid, review_id, reply_id)
    THEN DiffCommentRefused(DOES_NOT_EXIST, comment_id)
    ELSE IF ~default_has_delete_permissions(user, comment_id)
    THEN DiffCommentRefused(PERMISSION_DENIED, comment_id)
    ELSE DiffCommentResult(Remove(comments, {comment_id}), next_comment_id,
                           NO_CONTENT, comment_id)

\* a request on a diff comment, handled to completion
DiffCommentHandled(op, result) ==
    /\ result.next_comment_id + next_screenshot_comment_id <= MaxComments + 2
    /\ comments' = result.comments
    /\ next_comment_id' = result.next_comment_id
    /\ resp' = Response(op, result.code, result.id)
    /\ UNCHANGED <<profiles, draft_vars, review_vars, inflight, screenshot_comments,
                   next_screenshot_comment_id>>

DiffCommentCreate(user, rrid, review_id, filediff_id, interfilediff_id, p) ==
    DiffCommentHandled("diff_comment_create",
        DiffCommentCreateResult(user, rrid, review_id, filediff_id,
                                interfilediff_id, p))

DiffCommentUpdate(user, rrid, review_id, comment_id, p) ==
    DiffCommentHandled("diff_comment_update",
        DiffCommentUpdateResult(user, rrid, review_id, comment_id, p))

DiffCommentDelete(user, rrid, review_id, comment_id) ==
    DiffCommentHandled("diff_comment_delete",
        DiffCommentDeleteResult(user, rrid, review_id, comment_id))

ReplyDiffCommentCreate(user, rrid, review_id, reply_id, reply_to_id, text) ==
    DiffCommentHandled("reply_diff_comment_create",
        ReplyDiffCommentCreateResult(user, rrid, review_id, reply_id,
                                     reply_to_id, text))

ReplyDiffCommentUpdate(user, rrid, review_id, reply_id, comment_id, text) ==
    DiffCommentHandled("reply_diff_comment_update",
        ReplyDiffCommentUpdateResult(user, rrid, review_id, reply_id,
                                     comment_id, text))

ReplyDiffCommentDelete(user, rrid, review_id, reply_id, comment_id) ==
    DiffCommentHandled("reply_diff_comment_delete",
        ReplyDiffCommentDeleteResult(user, rrid, review_id, reply_id, comment_id))

-----------------------------------------------------------------------------
(* Screenshot comments *)

\* BaseScreenshotCommentResource.get_queryset
ScreenshotCommentQueryset(rrid) ==
    {c \in DOMAIN screenshot_comments :
        /\ ScreenshotReviewRequest[screenshot_comments[c].screenshot] = rrid
        /\ screenshot_comments[c].review \in DOMAIN reviews}

\* ReviewScreenshotCommentResource.get_queryset
ReviewScreenshotCommentQueryset(rrid, review_id) ==
    {c \in ScreenshotCommentQueryset(rrid) :
        screenshot_comments[c].review = review_id}

\* ReviewReplyScreenshotCommentResource.get_queryset
ReviewReplyScreenshotCommentQueryset(rrid, review_id, reply_id) ==
    {c \in ScreenshotCommentQueryset(rrid) :
        /\ screenshot_comments[c].review = reply_id
        /\ reviews[reply_id].base_reply_to = review_id}

\* ReviewScreenshotCommentResource.has_delete_permissions
screenshot_comment_has_delete_permissions(user, c) ==
    LET review == reviews[screenshot_comments[c].review]
    IN  ~review.public /\ review.user = user

\* the outcome of a request on a screenshot comment
ScreenshotCommentResult(cs, next_id, code, id) ==
    [screenshot_comments |-> cs, next_screenshot_comment_id |-> next_id,
     code |-> code, id |-> id]

ScreenshotCommentRefused(code, id) ==
    ScreenshotCommentResult(screenshot_comments, next_screenshot_comment_id,
                            code, id)

\* ReviewScreenshotCommentResource.create: the keys of the invalid fields
ScreenshotCommentInvalidFields(rrid, screenshot_id) ==
    IF \/ screenshot_id \notin DOMAIN ScreenshotReviewRequest
       \/ ScreenshotReviewRequest[screenshot_id] # rrid
    THEN {"screenshot_id"} ELSE {}

\* ReviewScreenshotCommentResource.create
ScreenshotCommentCreateResult(user, rrid, review_id, screenshot_id, p) ==
    IF ~ReviewRequestExists(rrid) \/ review_id \notin ReviewQueryset(reviews, rrid)
    THEN ScreenshotCommentRefused(DOES_NOT_EXIST, review_id)
    ELSE IF ~has_modify_permissions(reviews, user, review_id)
    THEN ScreenshotCommentRefused(PERMISSION_DENIED, review_id)
    ELSE IF ScreenshotCommentInvalidFields(rrid, screenshot_id) # {}
    THEN ScreenshotCommentRefused(INVALID_FORM_DATA, review_id)
    ELSE ScreenshotCommentResult(
             Insert(screenshot_comments, next_screenshot_comment_id,
                    [review |-> review_id, screenshot |-> screenshot_id,
                     reply_to |-> NULL, text |-> p.text,
                     x |-> p.x, y |-> p.y, w |-> p.w, h |-> p.h]),
             next_screenshot_comment_id + 1, CREATED,
             next_screenshot_comment_id)

\* the request fields of a screenshot comment create or update; a number
\* that was not sent is NULL
ScreenshotCommentPayloads ==
    {[text |-> "a", x |-> 5, y |-> 5, w |-> 8, h |-> 6],
     [text |-> "b", x |-> NULL, y |-> NULL, w |-> NULL, h |-> NULL]}

\* ReviewScreenshotCommentResource.update
ScreenshotCommentUpdateResult(user, rrid, review_id, comment_id, p) ==
    IF \/ ~ReviewRequestExists(rrid)
       \/ review_id \notin ReviewQueryset(reviews, rrid)
       \/ comment_id \notin ReviewScreenshotCommentQueryset(rrid, review_id)
    THEN ScreenshotCommentRefused(DOES_NOT_EXIST, comment_id)
    ELSE IF ~has_modify_permissions(reviews, user, review_id)
    THEN ScreenshotCommentRefused(PERMISSION_DENIED, comment_id)
    ELSE ScreenshotCommentResult(
             [screenshot_comments EXCEPT ![comment_id] =
                 [@ EXCEPT !.text = IF p.text = Absent THEN @ ELSE p.text,
                           !.x = IF p.x = NULL THEN @ ELSE p.x,
                           !.y = IF p.y = NULL THEN @ ELSE p.y,
                           !.w = IF p.w = NULL THEN @ ELSE p.w,
                           !.h = IF p.h = NULL THEN @ ELSE p.h]],
             next_screenshot_comment_id, OK, comment_id)

\* ReviewScreenshotCommentResource.delete
ScreenshotCommentDeleteResult(user, rrid, review_id, comment_id) ==
    IF comment_id \notin ReviewScreenshotCommentQueryset(rrid, review_id)
    THEN ScreenshotCommentRefused(DOES_NOT_EXIST, comment_id)
    ELSE IF ~screenshot_comment_has_delete_permissions(user, comment_id)
    THEN ScreenshotCommentRefused(PERMISSION_DENIED, comment_id)
    ELSE ScreenshotCommentResult(Remove(screenshot_comments, {comment_id}),
                                 next_screenshot_comment_id, NO_CONTENT,
                                 comment_id)

\* ReviewReplyScreenshotCommentResource.create
ReplyScreenshotCommentCreateResult(user, rrid, review_id, reply_id, reply_to_id, text) ==
    IF \/ ~ReviewRequestExists(rrid)
       \/ reply_id \notin ReplyQueryset(reviews, rrid, review_id)
    THEN ScreenshotCommentRefused(DOES_NOT_EXIST, reply_id)
    ELSE IF ~has_modify_permissions(reviews, user, reply_id)
    THEN ScreenshotCommentRefused(PERMISSION_DENIED, reply_id)
    ELSE IF reply_to_id \notin ReviewScreenshotCommentQueryset(rrid, review_id)
    THEN ScreenshotCommentRefused(INVALID_FORM_DATA, reply_id)
    ELSE LET comment == screenshot_comments[reply_to_id]
         IN  ScreenshotCommentResult(
                 Insert(screenshot_comments, next_screenshot_comment_id,
                        [review |-> reply_id,
                         screenshot |-> comment.screenshot,
                         reply_to |-> NULL, text |-> text,
                         x |-> comment.x, y |-> comment.y,
                         w |-> comment.w, h |-> comment.h]),
                 next_screenshot_comment_id + 1, CREATED,
                 next_screenshot_comment_id)

\* ReviewReplyScreenshotCommentResource.update
ReplyScreenshotCommentUpdateResult(user, rrid, review_id, reply_id, comment_id, text) ==
    IF \/ ~ReviewRequestExists(rrid)
       \/ reply_id \notin ReplyQueryset(reviews, rrid, review_id)
       \/ comment_id \notin
              ReviewReplyScreenshotCommentQueryset(rrid, review_id, reply_id)
    THEN ScreenshotCommentRefused(DOES_NOT_EXIST, comment_id)
    ELSE IF ~has_modify_permissions(reviews, user, reply_id)
    THEN ScreenshotCommentRefused(PERMISSION_DENIED, comment_id)
    ELSE ScreenshotCommentResult(
             [screenshot_comments EXCEPT ![comment_id].text = text],
             next_screenshot_comment_id, OK, comment_id)

\* ReviewReplyScreenshotCommentResource.delete
ReplyScreenshotCommentDeleteResult(user, rrid, review_id, reply_id, comment_id) ==
    IF comment_id \notin
           ReviewReplyScreenshotCommentQueryset(rrid, review_id, reply_id)
    THEN ScreenshotCommentRefused(DOES_NOT_EXIST, comment_id)
    ELSE IF ~default_has_delete_permissions(user, comment_id)
    THEN ScreenshotCommentRefused(PERMISSION_DENIED, comment_id)
    ELSE ScreenshotCommentResult(Remove(screenshot_comments, {comment_id}),
                                 next_screenshot_comment_id, NO_CONTENT,
                                 comment_id)

\* a request on a screenshot comment, handled to completion
ScreenshotCommentHandled(op, result) ==
    /\ next_comment_id + result.next_screenshot_comment_id <= MaxComments + 2
    /\ screenshot_comments' = result.screenshot_comments
    /\ next_screenshot_comment_id' = result.next_screenshot_comment_id
    /\ resp' = Response(op, result.code, result.id)
    /\ UNCHANGED <<profiles, draft_vars, review_vars, inflight, comments, next_comment_id>>

ScreenshotCommentCreate(user, rrid, review_id, screenshot_id, p) ==
    ScreenshotCommentHandled("screenshot_comment_create",
        ScreenshotCommentCreateResult(user, rrid, review_id, screenshot_id, p))

ScreenshotCommentUpdate(user, rrid, review_id, comment_id, p) ==
    ScreenshotCommentHandled("screenshot_comment_update",
        ScreenshotCommentUpdateResult(user, rrid, review_id, comment_id, p))

ScreenshotCommentDelete(user, rrid, review_id, comment_id) ==
    ScreenshotCommentHandled("screenshot_comment_delete",
        ScreenshotCommentDeleteResult(user, rrid, review_id, comment_id))

ReplyScreenshotCommentCreate(user, rrid, review_id, reply_id, reply_to_id, text) ==
    ScreenshotCommentHandled("reply_screenshot_comment_create",
        ReplyScreenshotCommentCreateResult(user, rrid, review_id, reply_id,
                                           reply_to_id, text))

ReplyScreenshotCommentUpdate(user, rrid, review_id, reply_id, comment_id, text) ==
    ScreenshotCommentHandled("reply_screenshot_comment_update",
        ReplyScreenshotCommentUpdateResult(user, rrid, review_id, reply_id,
                                           comment_id, text))

ReplyScreenshotCommentDelete(user, rrid, review_id, reply_id, comment_id) ==
    ScreenshotCommentHandled("reply_screenshot_comment_delete",
        ReplyScreenshotCommentDeleteResult(user, rrid, review_id, reply_id,
                                           comment_id))

-----------------------------------------------------------------------------
(* The review specification: sequential requests on reviews, replies and   *)
(* their comments, under review requests that exist and are published.     *)

\* a ReviewRequest row
ReviewRequestRow(submitter, public, status, summary, target_groups) ==
    [submitter |-> submitter, public |-> public, status |-> status,
     summary |-> summary, description |-> "", target_groups |-> target_groups,
     target_people |-> {}]

ReviewIds == 1..MaxReviews
CommentIds == 1..MaxComments
ReviewRequestIds == 1..MaxReviewRequests

InitReview ==
    /\ review_requests = [i \in {1} |->
                             ReviewRequestRow("alice", TRUE, "P", "Fix bug", {})]
    /\ drafts = <<>>
    /\ next_draft_id = 1
    /\ next_review_request_id = 2
    /\ screenshots = InitScreenshots
    /\ reviews = <<>>
    /\ next_review_id = 1
    /\ comments = <<>>
    /\ next_comment_id = 1
    /\ screenshot_comments = <<>>
    /\ next_screenshot_comment_id = 1
    /\ inflight = <<>>
    /\ profiles = <<>>
    /\ resp = NoRequest

\* requests name review request 1, which exists, or 2, which does not
ReviewStep ==
    \E user \in Users :
        \/ \E rrid \in {1, 2}, p \in ReviewPayloads : ReviewCreate(user, rrid, p)
        \/ \E review_id \in ReviewIds, p \in ReviewPayloads :
               ReviewUpdate(user, 1, review_id, p)
        \/ \E rrid \in {1, 2}, review_id \in ReviewIds :
               ReviewDelete(user, rrid, review_id)
        \/ \E review_id \in ReviewIds, p \in ReviewPayloads :
               ReplyCreate(user, 1, review_id, p)
        \/ \E review_id \in ReviewIds, reply_id \in ReviewIds, p \in ReviewPayloads :
               ReplyUpdate(user, 1, review_id, reply_id, p)
        \/ \E review_id \in ReviewIds, reply_id \in ReviewIds :
               ReplyDelete(user, 1, review_id, reply_id)

NextReview == ReviewStep

SpecReview == InitReview /\ [][NextReview]_vars

-----------------------------------------------------------------------------
(* Claims on reviews and replies *)

AllReviewRequestIds == {1, 2}

\* the paths under which review r is reached as a review or as a reply
IsReviewAt(rrid, r) ==
    ReviewRequestExists(rrid) /\ r \in ReviewQueryset(reviews, rrid)

IsReplyAt(rrid, review_id, r) ==
    /\ IsReviewAt(rrid, review_id)
    /\ r \in ReplyQueryset(reviews, rrid, review_id)

\* C1: once a review or reply is public, every update request that reaches
\* it, from any user and with any payload, is answered PERMISSION_DENIED and
\* changes no review; and no request of any kind changes a field of a
\* public review, so public never goes back to false.
PublishedReviewIsImmutable ==
    /\ [](\A r \in DOMAIN reviews, user \in Users, rrid \in AllReviewRequestIds,
             p \in ReviewPayloads :
             reviews[r].public =>
                 /\ IsReviewAt(rrid, r) =>
                        LET result == ReviewUpdateResult(user, rrid, r, p)
                        IN  /\ result.code = PERMISSION_DENIED
                            /\ result.reviews = reviews
                 /\ \A review_id \in DOMAIN reviews :
                        IsReplyAt(rrid, review_id, r) =>
                            LET result == ReplyUpdateResult(user, rrid,
                                                            review_id, r, p)
                            IN  /\ result.code = PERMISSION_DENIED
                                /\ result.reviews = reviews)
    /\ [][\/ reviews' = reviews
          \/ \A r \in DOMAIN reviews :
                 (reviews[r].public /\ r \in DOMAIN reviews')
                     => reviews'[r] = reviews[r]]_vars

\* C1 witness: an update of a published review that carries text was refused
PublishedReviewUpdateRefused ==
    /\ resp.op \in {"review_update", "reply_update"}
    /\ resp.code = PERMISSION_DENIED
    /\ resp.id \in DOMAIN reviews
    /\ reviews[resp.id].public
    /\ reviews[resp.id].body_top = "x"

\* C3: a delete request that reaches a public review or reply is answered
\* PERMISSION_DENIED and removes nothing; a delete request that reaches a
\* non-public one is answered 204 only if the requester is its author.
DeleteOnlyPendingByAuthor ==
    \A r \in DOMAIN reviews, user \in Users, rrid \in AllReviewRequestIds :
        LET Settled(result) ==
                /\ reviews[r].public =>
                       /\ result.code = PERMISSION_DENIED
                       /\ result.reviews = reviews
                       /\ result.comments = comments
                       /\ result.screenshot_comments = screenshot_comments
                /\ (~reviews[r].public /\ result.code = NO_CONTENT) =>
                       reviews[r].user = user
                /\ result.code = NO_CONTENT <=> r \notin DOMAIN result.reviews
        IN  /\ IsReviewAt(rrid, r) => Settled(ReviewDeleteResult(user, rrid, r))
            /\ \A review_id \in DOMAIN reviews :
                   IsReplyAt(rrid, review_id, r) =>
                       Settled(ReplyDeleteResult(user, rrid, review_id, r))

\* C3 witness: a delete of a published reply was refused and the reply is
\* still there
PublishedReplyDeleteRefused ==
    /\ resp.op = "reply_delete"
    /\ resp.code = PERMISSION_DENIED
    /\ resp.id \in DOMAIN reviews
    /\ reviews[resp.id].public
    /\ reviews[resp.id].base_reply_to # NULL

\* C4: there is at most one non-public review for each (review request,
\* user, base_reply_to), and a create request issued while one exists
\* returns that one without inserting a row.
OnePendingReviewPerUser ==
    \A rrid \in AllReviewRequestIds, user \in Users :
        LET Pending(base) ==
                {r \in DOMAIN reviews : /\ reviews[r].review_request = rrid
                                        /\ reviews[r].user = user
                                        /\ reviews[r].base_reply_to = base
                                        /\ ~reviews[r].public}
            Reused(base, result) ==
                /\ result.id \in Pending(base)
                /\ DOMAIN result.reviews = DOMAIN reviews
                /\ result.next_review_id = next_review_id
                /\ result.code = SEE_OTHER
        IN  /\ \A base \in {NULL} \cup DOMAIN reviews :
                   Cardinality(Pending(base)) <= 1
            /\ \A p \in ReviewPayloads :
                   /\ Pending(NULL) # {} =>
                          Reused(NULL, ReviewCreateResult(user, rrid, p))
                   /\ \A base \in DOMAIN reviews :
                          (IsReviewAt(rrid, base) /\ Pending(base) # {}) =>
                              Reused(base, ReplyCreateResult(user, rrid, base, p))

\* C4 witness: a create request was answered with the pending review of the
\* user, after an earlier one of the same user had been published
PendingReviewReused ==
    /\ resp.op \in {"review_create", "reply_create"}
    /\ resp.code = SEE_OTHER
    /\ resp.id \in DOMAIN reviews
    /\ ~reviews[resp.id].public
    /\ \E r \in DOMAIN reviews :
           /\ r # resp.id
           /\ reviews[r].public
           /\ reviews[r].user = reviews[resp.id].user
           /\ reviews[r].base_reply_to = reviews[resp.id].base_reply_to

-----------------------------------------------------------------------------
(* The comment specification: requests on the diff comments and screenshot *)
(* comments of a review of alice and of a reply of bob to it, both pending *)
(* at first, and the requests that publish or delete the two.              *)

InitComment ==
    /\ review_requests =
           [i \in {1, 2} |-> ReviewRequestRow("alice", TRUE, "P", "Fix bug", {})]
    /\ drafts = <<>>
    /\ next_draft_id = 1
    /\ next_review_request_id = 3
    /\ screenshots = InitScreenshots
    /\ reviews = (1 :> NewReview(1, "alice", NULL)) @@ (2 :> NewReview(1, "bob", 1))
    /\ next_review_id = 3
    /\ comments = <<>>
    /\ next_comment_id = 1
    /\ screenshot_comments = <<>>
    /\ next_screenshot_comment_id = 1
    /\ inflight = <<>>
    /\ profiles = <<>>
    /\ resp = NoRequest

\* the payload of a request that only publishes
PublishPayload == ReviewPayload(Absent, Absent, Absent, "1")

DiffCommentCreatePayload == [text |-> "a", first_line |-> 10, num_lines |-> 2]

ScreenshotCommentCreatePayload == [text |-> "a", x |-> 5, y |-> 5, w |-> 8, h |-> 6]

\* requests under review request 1; file diff 3 and screenshot 2 belong to
\* review request 2
DiffCommentStep ==
    \E user \in Users, review_id \in {1, 2}, comment_id \in CommentIds :
        \/ \E filediff_id \in {1, 3}, interfilediff_id \in {NULL, 1} :
               DiffCommentCreate(user, 1, review_id, filediff_id,
                                 interfilediff_id, DiffCommentCreatePayload)
        \/ \E p \in DiffCommentPayloads :
               DiffCommentUpdate(user, 1, review_id, comment_id, p)
        \/ DiffCommentDelete(user, 1, review_id, comment_id)
        \/ ReplyDiffCommentCreate(user, 1, 1, review_id, comment_id, "r")
        \/ ReplyDiffCommentUpdate(user, 1, 1, review_id, comment_id, "s")
        \/ ReplyDiffCommentDelete(user, 1, 1, review_id, comment_id)

ScreenshotCommentStep ==
    \E user \in Users, review_id \in {1, 2}, comment_id \in CommentIds :
        \/ \E screenshot_id \in {1, 2} :
               ScreenshotCommentCreate(user, 1, review_id, screenshot_id,
                                       ScreenshotCommentCreatePayload)
        \/ \E p \in ScreenshotCommentPayloads :
               ScreenshotCommentUpdate(user, 1, review_id, comment_id, p)
        \/ ScreenshotCommentDelete(user, 1, review_id, comment_id)
        \/ ReplyScreenshotCommentCreate(user, 1, 1, review_id, comment_id, "r")
        \/ ReplyScreenshotCommentUpdate(user, 1, 1, review_id, comment_id, "s")
        \/ ReplyScreenshotCommentDelete(user, 1, 1, review_id, comment_id)

PublishOrDeleteStep ==
    \E user \in Users :
        \/ ReviewUpdate(user, 1, 1, PublishPayload)
        \/ ReplyUpdate(user, 1, 1, 2, PublishPayload)
        \/ ReviewDelete(user, 1, 1)
        \/ ReplyDelete(user, 1, 1, 2)

NextComment == DiffCommentStep \/ ScreenshotCommentStep \/ PublishOrDeleteStep

SpecComment == InitComment /\ [][NextComment]_vars

-----------------------------------------------------------------------------
(* Claims on comments *)

\* the comments of table cs that review r owns, with their fields
CommentsOf(cs, r) == [c \in {c \in DOMAIN cs : cs[c].review = r} |-> cs[c]]

-----------------------------------------------------------------------------
(* The review race specification: create requests on reviews and replies   *)
(* whose storage steps interleave.  Review.objects.get_or_create is a      *)
(* SELECT, then an INSERT when nothing was found, then on IntegrityError a *)
(* second SELECT; the handler then checks and saves the object it holds.   *)

\* the requests in flight at a time
Requests == {"a", "b"}

INTEGRITY_ERROR == "500"

\* the constraint of the storage on Review rows: no second non-public row
\* for a (review_request, user, base_reply_to).  unconstrained: no constraint
unconstrained(rs, id, row) == FALSE

violates_unique(rs, id, row) ==
    /\ ~row.public
    /\ \E r \in DOMAIN rs \ {id} : /\ ~rs[r].public
                                   /\ rs[r].review_request = row.review_request
                                   /\ rs[r].user = row.user
                                   /\ rs[r].base_reply_to = row.base_reply_to

\* a request in flight: what was asked, where the handler stands, and the
\* Review object it holds
Inflight(user, rrid, base, p, pc, id, review, is_new, raced) ==
    [user |-> user, rrid |-> rrid, base |-> base, p |-> p, pc |-> pc,
     id |-> id, review |-> review, is_new |-> is_new, raced |-> raced]

\* create, up to the SELECT of get_or_create
CreateGet(req, user, rrid, base, p) ==
    /\ req \notin DOMAIN inflight
    /\ UNCHANGED <<profiles, draft_vars, review_vars, comment_vars>>
    /\ IF \/ ~ReviewRequestExists(rrid)
          \/ base # NULL /\ base \notin ReviewQueryset(reviews, rrid)
       THEN /\ resp' = Response("create", DOES_NOT_EXIST, base)
            /\ UNCHANGED inflight
       ELSE LET found == PendingReviews(reviews, rrid, user, base)
            IN  /\ UNCHANGED resp
                /\ IF found = {}
                   THEN inflight' =
                            Insert(inflight, req,
                                   Inflight(user, rrid, base, p, "insert", NULL,
                                            NewReview(rrid, user, base),
                                            TRUE, FALSE))
                   ELSE \E id \in found :
                            inflight' =
                                Insert(inflight, req,
                                       Inflight(user, rrid, base, p, "update",
                                                id, reviews[id], FALSE, FALSE))

\* create, the INSERT of get_or_create and the SELECT after an IntegrityError
CreateInsert(req) ==
    /\ req \in DOMAIN inflight
    /\ inflight[req].pc = "insert"
    /\ UNCHANGED <<profiles, draft_vars, comment_vars, resp>>
    /\ LET q == inflight[req]
       IN  IF violates_unique(reviews, next_review_id, q.review)
           THEN /\ UNCHANGED review_vars
                /\ \E id \in PendingReviews(reviews, q.rrid, q.user, q.base) :
                       inflight' = [inflight EXCEPT ![req] =
                           Inflight(q.user, q.rrid, q.base, q.p, "update", id,
                                    reviews[id], FALSE, TRUE)]
           ELSE /\ next_review_id <= MaxReviews
                /\ reviews' = Insert(reviews, next_review_id, q.review)
                /\ next_review_id' = next_review_id + 1
                /\ inflight' = [inflight EXCEPT ![req].pc = "update",
                                                ![req].id = next_review_id]

\* create, from the status code on: _update_review or _update_reply on the
\* object held, whose save writes every field of it
CreateUpdate(req) ==
    /\ req \in DOMAIN inflight
    /\ inflight[req].pc = "update"
    /\ UNCHANGED <<profiles, draft_vars, comment_vars, next_review_id>>
    /\ inflight' = Remove(inflight, {req})
    /\ LET q == inflight[req]
           held == (q.id :> q.review)
           row == IF q.base = NULL THEN UpdatedReview(q.review, q.p)
                  ELSE UpdatedReply(q.review, q.p)
       IN  IF ~has_modify_permissions(held, q.user, q.id)
           THEN /\ resp' = Response("create", PERMISSION_DENIED, q.id)
                /\ UNCHANGED reviews
           ELSE IF violates_unique(reviews, q.id, row)
           THEN /\ resp' = Response("create", INTEGRITY_ERROR, q.id)
                /\ UNCHANGED reviews
           ELSE /\ reviews' = Insert(reviews, q.id, row)
                /\ resp' = Response("create",
                                    IF q.is_new THEN CREATED ELSE SEE_OTHER, q.id)

RacePayloads == {ReviewPayload(Absent, "x", Absent, Absent), PublishPayload}

NextReviewRace ==
    \E req \in Requests :
        \/ \E user \in Users, base \in {NULL, 1}, p \in RacePayloads :
               CreateGet(req, user, 1, base, p)
        \/ CreateInsert(req)
        \/ CreateUpdate(req)

SpecReviewRace == InitReview /\ [][NextReviewRace]_vars

-----------------------------------------------------------------------------
(* Review requests and their drafts *)

\* holders of the reviews.can_edit_reviewrequest permission
can_edit_reviewrequest == {}

\* ReviewRequest.is_mutable_by: the owner or a holder of the permission
is_mutable_by(rr, user) == rr.submitter = user \/ user \in can_edit_reviewrequest

\* the review groups that exist
Groups == {"g1", "g2"}

\* the drafts of a review request
DraftsOf(ds, rrid) == {d \in DOMAIN ds : ds[d].review_request = rrid}

\* a create that inserts a draft whether or not there is one
ReviewRequestDraft_insert(ds, next_id, rrid, rr) ==
    [drafts |-> Insert(ds, next_id,
                       [review_request |-> rrid, summary |-> rr.summary,
                        description |-> rr.description,
                        target_groups |-> rr.target_groups,
                        target_people |-> rr.target_people, diffset |-> ""]),
     next_draft_id |-> next_id + 1, id |-> next_id]

\* ReviewRequestDraft.create: the draft of the review request, or a new one
\* with the fields of the review request
ReviewRequestDraft_create(ds, next_id, rrid, rr) ==
    IF DraftsOf(ds, rrid) # {}
    THEN [drafts |-> ds, next_draft_id |-> next_id,
          id |-> CHOOSE d \in DraftsOf(ds, rrid) : TRUE]
    ELSE [drafts |-> Insert(ds, next_id,
                            [review_request |-> rrid, summary |-> rr.summary,
                             description |-> rr.description,
                             target_groups |-> rr.target_groups,
                             target_people |-> rr.target_people,
                             diffset |-> ""]),
          next_draft_id |-> next_id + 1, id |-> next_id]

\* a publish that does nothing
ReviewRequest_not_published(rrs, ds, rrid) ==
    [review_requests |-> rrs, drafts |-> ds]

\* ReviewRequest.publish: the fields staged in the draft are copied onto the
\* review request, it is marked public, and the draft is deleted
ReviewRequest_publish(rrs, ds, rrid) ==
    IF DraftsOf(ds, rrid) = {}
    THEN [review_requests |-> [rrs EXCEPT ![rrid].public = TRUE], drafts |-> ds]
    ELSE LET d == CHOOSE d \in DraftsOf(ds, rrid) : TRUE
         IN  [review_requests |->
                  [rrs EXCEPT ![rrid] =
                      [@ EXCEPT !.summary = ds[d].summary,
                                !.description = ds[d].description,
                                !.target_groups = ds[d].target_groups,
                                !.target_people = ds[d].target_people,
                                !.public = TRUE]],
              drafts |-> Remove(ds, {d})]

\* no draft: the object of a request that holds or returns none
NoDraft == [review_request |-> NULL, summary |-> "", description |-> "",
            target_groups |-> {}, target_people |-> {}, diffset |-> ""]

\* Text that is taken apart: a string is the sequence of its characters; in
\* a list field a name is one symbol of the text

\* the index of the first sep in s, or 0
RECURSIVE find(_, _, _)
find(s, sep, i) ==
    IF i > Len(s) THEN 0 ELSE IF s[i] = sep THEN i ELSE find(s, sep, i + 1)

\* str.split(sep)
RECURSIVE split(_, _)
split(s, sep) ==
    LET i == find(s, sep, 1)
    IN  IF i = 0 THEN <<s>>
        ELSE <<SubSeq(s, 1, i - 1)>> \o split(SubSeq(s, i + 1, Len(s)), sep)

RECURSIVE lstrip(_)
lstrip(s) == IF s # <<>> /\ Head(s) = " " THEN lstrip(Tail(s)) ELSE s

RECURSIVE rstrip(_)
rstrip(s) ==
    IF s # <<>> /\ s[Len(s)] = " " THEN rstrip(SubSeq(s, 1, Len(s) - 1)) ELSE s

\* str.strip()
strip(s) == lstrip(rstrip(s))

\* sep.join(list)
RECURSIVE join(_, _)
join(list, sep) ==
    IF list = <<>> THEN <<>>
    ELSE IF Len(list) = 1 THEN list[1]
    ELSE list[1] \o <<sep>> \o join(Tail(list), sep)

\* the strings of at most n characters over an alphabet
Strings(alphabet, n) == UNION {[1..k -> alphabet] : k \in 0..n}

\* re.split(r",\s*", data): the text between the commas, without the
\* whitespace that follows a comma
re_split(data) ==
    LET parts == split(data, ",")
    IN  [i \in DOMAIN parts |-> IF i = 1 THEN parts[i] ELSE lstrip(parts[i])]

\* the text of a name ("" is the empty text) and of names joined by commas
name_text(name) == IF name = "" THEN <<>> ELSE <<name>>

comma_list(names) == join([i \in DOMAIN names |-> name_text(names[i])], ",")

\* the request fields of a draft create or update; target_groups and
\* target_people are texts, NotSent when the field is absent
NotSent == <<Absent>>

\* the text of a list field given as the names between its commas
list_text(names) == IF names = NotSent THEN NotSent ELSE comma_list(names)

DraftPayload(summary, description, target_groups, public) ==
    [summary |-> summary, description |-> description,
     target_groups |-> list_text(target_groups), target_people |-> NotSent,
     id |-> Absent, public |-> public]

\* a payload that also names target_people or the immutable field id
DraftEditPayload(summary, description, target_groups, target_people, id, public) ==
    [summary |-> summary, description |-> description,
     target_groups |-> list_text(target_groups),
     target_people |-> list_text(target_people),
     id |-> id, public |-> public]

\* '\n' in data, for the summaries of the payloads
HasNewline(data) == data \in {"Fix\nbug"}

Entries(values) == {values[i] : i \in DOMAIN values}

\* the state of the draft tables after a request, its status code and the
\* id of the draft (or review request) it names
Unchanged(code, id) ==
    [review_requests |-> review_requests, drafts |-> drafts,
     next_draft_id |-> next_draft_id,
     next_review_request_id |-> next_review_request_id,
     screenshots |-> screenshots, code |-> code, id |-> id, fields |-> {}]

\* the truth of public as the test that ends update sees it:
\* request.POST.get('public', False)
publish_requested(p) == Truthy(p.public)

\* the truth of public as its declared type, bool, parses it
parsed_public(p) == p.public # Absent /\ ParseBool(p.public)

\* a decorator that drops the fields it does not know
unknown_fields_dropped(p) == {}

\* webapi_request_fields on create and update: the fields of the request
\* that are not among the declared ones; the immutable id, review_request
\* and last_updated are not declared
unsupported_fields(p) == IF p.id = Absent THEN {} ELSE {"id"}

\* a check that lets every user through
anyone_may_prepare_draft(rr, user) == TRUE

\* the permission check of prepare_draft
may_prepare_draft(rr, user) == is_mutable_by(rr, user)

\* an update that goes on whatever the validation found
never_rejected(invalid_fields) == FALSE

\* the test that ends update with INVALID_FORM_DATA
rejected(invalid_fields) == invalid_fields # {}

\* a save that does not wait for the validation
save_always(always_save, invalid_fields) == TRUE

\* the test that guards the saves of update
should_save(always_save, invalid_fields) == always_save \/ invalid_fields = {}

\* the objects a value of a list field names: Group.objects.get by name
\* for target_groups, _find_user (which strips the value) for target_people
lookup(value, known) ==
    {k \in known : IF known = Users THEN strip(value) = <<k>> ELSE value = <<k>>}

\* a list field none of whose values is reported
none_unresolved(data, known) == {}

\* the values of a list field that _set_draft_field_data adds to the
\* target, and those it reports as invalid
Resolved(data, known) ==
    UNION {lookup(v, known) : v \in Entries(re_split(data))}

Unresolved(data, known) ==
    {v \in Entries(re_split(data)) : v # <<>> /\ lookup(v, known) = {}}

\* ReviewRequestDraftResource.update
DraftUpdateResult(user, rrid, p, always_save) ==
    IF unsupported_fields(p) # {}
    THEN [Unchanged(INVALID_FORM_DATA, NULL) EXCEPT !.fields = unsupported_fields(p)]
    ELSE IF ~ReviewRequestExists(rrid) THEN Unchanged(DOES_NOT_EXIST, NULL)
    ELSE IF ~may_prepare_draft(review_requests[rrid], user)
    THEN Unchanged(PERMISSION_DENIED, NULL)
    ELSE LET prepared == ReviewRequestDraft_create(drafts, next_draft_id, rrid,
                                                   review_requests[rrid])
             d == prepared.id
             draft == prepared.drafts[d]
             groups_sent == p.target_groups # NotSent
             people_sent == p.target_people # NotSent
             invalid_groups == groups_sent
                               /\ Unresolved(p.target_groups, Groups) # {}
             invalid_people == people_sent
                               /\ Unresolved(p.target_people, Users) # {}
             invalid_summary == p.summary # Absent /\ HasNewline(p.summary)
             invalid_fields ==
                 (IF invalid_groups THEN {"target_groups"} ELSE {}) \cup
                 (IF invalid_people THEN {"target_people"} ELSE {}) \cup
                 (IF invalid_summary THEN {"summary"} ELSE {})
             invalid == rejected(invalid_fields)
             \* target.clear() and target.add() write at once
             cleared == [draft EXCEPT
                            !.target_groups =
                                IF groups_sent
                                THEN Resolved(p.target_groups, Groups) ELSE @,
                            !.target_people =
                                IF people_sent
                                THEN Resolved(p.target_people, Users) ELSE @]
             staged == [cleared EXCEPT
                           !.summary = IF p.summary = Absent \/ invalid_summary
                                       THEN @ ELSE p.summary,
                           !.description = IF p.description = Absent THEN @
                                           ELSE p.description]
             saved == IF should_save(always_save, invalid_fields)
                      THEN staged ELSE cleared
             ds == [prepared.drafts EXCEPT ![d] = saved]
             published == ReviewRequest_publish(review_requests, ds, rrid)
         IN  IF invalid
             THEN [Unchanged(INVALID_FORM_DATA, d) EXCEPT
                      !.drafts = ds, !.next_draft_id = prepared.next_draft_id,
                      !.fields = invalid_fields]
             ELSE IF publish_requested(p)
             THEN [Unchanged(SEE_OTHER, d) EXCEPT
                      !.review_requests = published.review_requests,
                      !.drafts = published.drafts,
                      !.next_draft_id = prepared.next_draft_id]
             ELSE [Unchanged(OK, d) EXCEPT
                      !.drafts = ds, !.next_draft_id = prepared.next_draft_id]

\* ReviewRequestDraftResource.create
DraftCreateResult(user, rrid, p) ==
    LET result == DraftUpdateResult(user, rrid, p, FALSE)
    IN  IF result.code = OK THEN [result EXCEPT !.code = CREATED] ELSE result

\* a delete permission check that lets every user through
draft_has_delete_permissions_of_anyone(rr, user) == TRUE

\* ReviewRequestDraftResource.has_delete_permissions
draft_has_delete_permissions(rr, user) == is_mutable_by(rr, user)

\* ReviewRequestDraftResource.delete
DraftDeleteResult(user, rrid) ==
    IF DraftsOf(drafts, rrid) = {} THEN Unchanged(DOES_NOT_EXIST, NULL)
    ELSE LET d == CHOOSE d \in DraftsOf(drafts, rrid) : TRUE
         IN  IF ~draft_has_delete_permissions(review_requests[rrid], user)
             THEN Unchanged(PERMISSION_DENIED, d)
             ELSE [Unchanged(NO_CONTENT, d) EXCEPT !.drafts = Remove(drafts, {d})]

\* DiffResource.create; form_valid: UploadDiffForm accepts the upload
DiffCreateResult(user, rrid, form_valid) ==
    IF ~ReviewRequestExists(rrid) THEN Unchanged(DOES_NOT_EXIST, NULL)
    ELSE IF ~is_mutable_by(review_requests[rrid], user)
    THEN Unchanged(PERMISSION_DENIED, NULL)
    ELSE IF ~form_valid THEN Unchanged(INVALID_FORM_DATA, NULL)
    ELSE LET found == {d \in DOMAIN drafts : drafts[d].review_request = rrid}
             prepared ==
                 IF found # {}
                 THEN [drafts |-> drafts, next_draft_id |-> next_draft_id,
                       id |-> CHOOSE d \in found : TRUE]
                 ELSE ReviewRequestDraft_create(drafts, next_draft_id, rrid,
                                                review_requests[rrid])
         IN  [Unchanged(CREATED, prepared.id) EXCEPT
                 !.drafts = [prepared.drafts EXCEPT
                                ![prepared.id].diffset = "uploaded"],
                 !.next_draft_id = prepared.next_draft_id]

\* BaseScreenshotResource.update
ScreenshotUpdateResult(user, rrid, screenshot_id, caption) ==
    IF \/ ~ReviewRequestExists(rrid)
       \/ screenshot_id \notin DOMAIN screenshots
       \/ ScreenshotReviewRequest[screenshot_id] # rrid
    THEN Unchanged(DOES_NOT_EXIST, NULL)
    ELSE IF ~is_mutable_by(review_requests[rrid], user)
    THEN Unchanged(PERMISSION_DENIED, NULL)
    ELSE LET prepared == ReviewRequestDraft_create(drafts, next_draft_id, rrid,
                                                   review_requests[rrid])
         IN  [Unchanged(OK, prepared.id) EXCEPT
                 !.drafts = prepared.drafts,
                 !.next_draft_id = prepared.next_draft_id,
                 !.screenshots = [screenshots EXCEPT
                                     ![screenshot_id].draft_caption = caption]]

\* ReviewRequestResource.create; repository_found: the repository resolves
ReviewRequestCreateResult(user, repository_found) ==
    IF ~repository_found THEN Unchanged(INVALID_REPOSITORY, NULL)
    ELSE [Unchanged(CREATED, next_review_request_id) EXCEPT
             !.review_requests =
                 Insert(review_requests, next_review_request_id,
                        ReviewRequestRow(user, FALSE, "P", "", {})),
             !.next_review_request_id = next_review_request_id + 1]

\* string_to_status
string_to_status(status) ==
    CASE status = "pending" -> "P"
      [] status = "submitted" -> "S"
      [] status = "discarded" -> "D"

\* a close and reopen that never raise PermissionError
anyone_may_change_status(rr, user) == TRUE

\* ReviewRequest.close and ReviewRequest.reopen: PermissionError unless the
\* user may modify the review request
may_change_status(rr, user) == is_mutable_by(rr, user)

\* ReviewRequestResource.update
ReviewRequestUpdateResult(user, rrid, status) ==
    IF ~ReviewRequestExists(rrid) THEN Unchanged(DOES_NOT_EXIST, rrid)
    ELSE IF status # Absent /\ review_requests[rrid].status # string_to_status(status)
    THEN IF ~may_change_status(review_requests[rrid], user)
         THEN Unchanged(PERMISSION_DENIED, rrid)
         ELSE [Unchanged(OK, rrid) EXCEPT
                  !.review_requests =
                      [review_requests EXCEPT
                          ![rrid].status = string_to_status(status)]]
    ELSE Unchanged(OK, rrid)

\* the response to a request on a review request or its draft: as Response,
\* with the names of the fields an INVALID_FORM_DATA result reports
DraftResponse(op, code, id, fields) ==
    [op |-> op, code |-> code, id |-> id, fields |-> fields]

\* the base WebAPIResource's has_access_permissions, which
\* ReviewRequestDraftResource does not override
draft_has_access_permissions(rr, user) == TRUE

\* ReviewRequestDraftResource.get: the status code and the draft returned
DraftGetResult(user, rrid) ==
    IF DraftsOf(drafts, rrid) = {}
    THEN [code |-> DOES_NOT_EXIST, id |-> NULL, body |-> NoDraft]
    ELSE LET d == CHOOSE d \in DraftsOf(drafts, rrid) : TRUE
         IN  IF ~draft_has_access_permissions(review_requests[rrid], user)
             THEN [code |-> PERMISSION_DENIED, id |-> d, body |-> NoDraft]
             ELSE [code |-> OK, id |-> d, body |-> drafts[d]]

\* a request on a review request or its draft, handled to completion
DraftRequestHandled(op, result) ==
    /\ result.next_draft_id = next_draft_id \/ result.next_draft_id <= MaxDrafts + 1
    /\ \/ result.next_review_request_id = next_review_request_id
       \/ result.next_review_request_id <= MaxReviewRequests + 1
    /\ review_requests' = result.review_requests
    /\ drafts' = result.drafts
    /\ next_draft_id' = result.next_draft_id
    /\ next_review_request_id' = result.next_review_request_id
    /\ screenshots' = result.screenshots
    /\ resp' = DraftResponse(op, result.code, result.id, result.fields)
    /\ UNCHANGED <<profiles, review_vars, comment_vars, inflight>>

DraftUpdate(user, rrid, p) ==
    DraftRequestHandled("draft_update", DraftUpdateResult(user, rrid, p, FALSE))

DraftCreate(user, rrid, p) ==
    DraftRequestHandled("draft_create", DraftCreateResult(user, rrid, p))

DraftDelete(user, rrid) ==
    DraftRequestHandled("draft_delete", DraftDeleteResult(user, rrid))

DiffCreate(user, rrid, form_valid) ==
    DraftRequestHandled("diff_create", DiffCreateResult(user, rrid, form_valid))

ScreenshotUpdate(user, rrid, screenshot_id, caption) ==
    DraftRequestHandled("screenshot_update",
                        ScreenshotUpdateResult(user, rrid, screenshot_id, caption))

ReviewRequestCreate(user, repository_found) ==
    DraftRequestHandled("review_request_create",
                        ReviewRequestCreateResult(user, repository_found))

ReviewRequestUpdate(user, rrid, status) ==
    DraftRequestHandled("review_request_update",
                        ReviewRequestUpdateResult(user, rrid, status))

DraftGet(user, rrid) ==
    /\ resp' = Response("draft_get", DraftGetResult(user, rrid).code,
                        DraftGetResult(user, rrid).id)
    /\ UNCHANGED <<profiles, draft_vars, review_vars, comment_vars, inflight>>

-----------------------------------------------------------------------------
(* The draft specification: sequential requests on review requests, their  *)
(* drafts, diffs and screenshots, from an empty database.                  *)

InitDraft ==
    /\ review_requests = <<>>
    /\ drafts = <<>>
    /\ next_draft_id = 1
    /\ next_review_request_id = 1
    /\ screenshots = InitScreenshots
    /\ reviews = <<>>
    /\ next_review_id = 1
    /\ comments = <<>>
    /\ next_comment_id = 1
    /\ screenshot_comments = <<>>
    /\ next_screenshot_comment_id = 1
    /\ inflight = <<>>
    /\ profiles = <<>>
    /\ resp = NoRequest

DraftPayloads ==
    {DraftPayload(Absent, Absent, NotSent, Absent),
     DraftPayload("Fix bug", "d", NotSent, Absent),
     DraftPayload("Fix\nbug", Absent, NotSent, "1"),
     DraftPayload("Fix bug", Absent, <<"g1">>, "1"),
     DraftPayload(Absent, Absent, NotSent, "0"),
     DraftPayload(Absent, Absent, <<"g1", "zz", "">>, Absent)}

Statuses == {Absent, "pending", "discarded"}

NextDraft ==
    \E user \in Users :
        \/ \E repository_found \in BOOLEAN :
               ReviewRequestCreate(user, repository_found)
        \/ \E rrid \in ReviewRequestIds :
               \/ \E p \in DraftPayloads : DraftUpdate(user, rrid, p)
               \/ \E p \in DraftPayloads : DraftCreate(user, rrid, p)
               \/ DraftDelete(user, rrid)
               \/ \E form_valid \in BOOLEAN : DiffCreate(user, rrid, form_valid)
               \/ \E screenshot_id \in DOMAIN ScreenshotReviewRequest :
                      ScreenshotUpdate(user, rrid, screenshot_id, "cap")
               \/ \E status \in Statuses : ReviewRequestUpdate(user, rrid, status)

SpecDraft == InitDraft /\ [][NextDraft]_vars

-----------------------------------------------------------------------------
(* Claims on review requests and drafts *)

\* p passes validation: no line break in the summary, every group resolves
ValidPayload(p) ==
    /\ p.summary # Absent => ~HasNewline(p.summary)
    /\ p.target_groups # NotSent =>
           Unresolved(p.target_groups, Groups) = {}

\* C6: every review request has at most one draft, and while it has one,
\* every draft-preparing request of a user who may modify it (draft update,
\* draft create, diff upload, screenshot caption update) works on that
\* draft and inserts no other.
DraftSingleton ==
    \A rrid \in ReviewRequestIds :
        LET existing == {d \in DOMAIN drafts : drafts[d].review_request = rrid}
            Same(result) ==
                /\ result.id \in existing
                /\ result.next_draft_id = next_draft_id
                /\ DOMAIN result.drafts \subseteq DOMAIN drafts
        IN  /\ Cardinality(existing) <= 1
            /\ \A user \in Users :
                   (/\ existing # {}
                    /\ is_mutable_by(review_requests[rrid], user)) =>
                       /\ \A p \in DraftPayloads :
                              /\ Same(DraftUpdateResult(user, rrid, p, FALSE))
                              /\ Same(DraftCreateResult(user, rrid, p))
                       /\ Same(DiffCreateResult(user, rrid, TRUE))
                       /\ \A sc \in DOMAIN screenshots :
                              ScreenshotReviewRequest[sc] = rrid =>
                                  Same(ScreenshotUpdateResult(user, rrid, sc, "cap"))

\* C6 witness: a diff was uploaded to the draft that an earlier draft update
\* had staged a summary on
DiffUploadedToStagedDraft ==
    /\ resp.op = "diff_create"
    /\ resp.code = CREATED
    /\ resp.id \in DOMAIN drafts
    /\ drafts[resp.id].summary = "Fix bug"
    /\ drafts[resp.id].diffset = "uploaded"
    /\ ~review_requests[drafts[resp.id].review_request].public

\* C8: a draft update or create that asks for the publish (public = 1) with
\* a payload that passes validation, from a user who may modify the review
\* request, is answered 303 and leaves the review request public with the
\* staged summary, description and groups and without a draft; draft ids
\* are never used again, so a draft prepared later is a new one.
PublishAppliesAndRemovesDraft ==
    /\ [](/\ \A d \in DOMAIN drafts : d < next_draft_id
          /\ \A user \in Users, rrid \in DOMAIN review_requests,
                p \in DraftPayloads :
                 LET existing ==
                         {d \in DOMAIN drafts : drafts[d].review_request = rrid}
                     before == IF existing = {} THEN review_requests[rrid]
                               ELSE drafts[CHOOSE d \in existing : TRUE]
                     Published(result) ==
                         LET rr == result.review_requests[rrid]
                         IN  /\ result.code = SEE_OTHER
                             /\ rr.public
                             /\ rr.summary = IF p.summary = Absent
                                             THEN before.summary ELSE p.summary
                             /\ rr.description =
                                    IF p.description = Absent
                                    THEN before.description ELSE p.description
                             /\ rr.target_groups =
                                    IF p.target_groups = NotSent
                                    THEN before.target_groups
                                    ELSE Resolved(p.target_groups, Groups)
                             /\ \A d \in DOMAIN result.drafts :
                                    result.drafts[d].review_request # rrid
                 IN  (/\ is_mutable_by(review_requests[rrid], user)
                      /\ p.public \in {"1", "True"}
                      /\ ValidPayload(p)) =>
                         /\ Published(DraftUpdateResult(user, rrid, p, FALSE))
                         /\ Published(DraftCreateResult(user, rrid, p)))
    /\ [][/\ next_draft_id' >= next_draft_id
          /\ \A d \in DOMAIN drafts' \ DOMAIN drafts : d = next_draft_id]_vars

\* C8 witness: a draft update has published the summary and the group, and
\* the review request has no draft
DraftPublished ==
    /\ resp.op = "draft_update"
    /\ resp.code = SEE_OTHER
    /\ drafts = <<>>
    /\ \E rrid \in DOMAIN review_requests :
           /\ review_requests[rrid].public
           /\ review_requests[rrid].summary = "Fix bug"
           /\ review_requests[rrid].target_groups = {"g1"}

\* C9: a review request is not public when created, and the only requests
\* that change its public flag, summary, description or groups are a draft
\* update or create that asks for the publish (public parses to true) with
\* a payload that passes validation.
OnlyPublishChangesReviewRequest ==
    \A user \in Users :
        /\ LET result == ReviewRequestCreateResult(user, TRUE)
           IN  \A rrid \in DOMAIN result.review_requests :
                   IF rrid \in DOMAIN review_requests
                   THEN result.review_requests[rrid] = review_requests[rrid]
                   ELSE ~result.review_requests[rrid].public
        /\ \A rrid \in ReviewRequestIds :
               LET Published(rs) ==
                       [r \in DOMAIN rs |->
                           <<rs[r].public, rs[r].summary, rs[r].description,
                             rs[r].target_groups>>]
                   Kept(result) ==
                       Published(result.review_requests) =
                           Published(review_requests)
               IN  /\ \A p \in DraftPayloads :
                          (~parsed_public(p) \/ ~ValidPayload(p)) =>
                              /\ Kept(DraftUpdateResult(user, rrid, p, FALSE))
                              /\ Kept(DraftCreateResult(user, rrid, p))
                   /\ Kept(DraftDeleteResult(user, rrid))
                   /\ \A form_valid \in BOOLEAN :
                          Kept(DiffCreateResult(user, rrid, form_valid))
                   /\ \A sc \in DOMAIN screenshots :
                          Kept(ScreenshotUpdateResult(user, rrid, sc, "cap"))
                   /\ \A status \in Statuses :
                          Kept(ReviewRequestUpdateResult(user, rrid, status))

\* C10: a draft update or create whose public field is absent or parses to
\* false does not publish: the review requests are as before, the draft
\* exists afterwards, and the answer is never 303 (200 or 201 when the
\* request is accepted).
NoPublishUnlessRequested ==
    \A user \in Users, rrid \in DOMAIN review_requests, p \in DraftPayloads :
        LET NotPublished(result, ok) ==
                /\ result.review_requests = review_requests
                /\ result.code # SEE_OTHER
                /\ ValidPayload(p) =>
                       /\ result.code = ok
                       /\ result.id \in DOMAIN result.drafts
                       /\ result.drafts[result.id].review_request = rrid
        IN  (/\ is_mutable_by(review_requests[rrid], user)
             /\ ~parsed_public(p)) =>
                /\ NotPublished(DraftUpdateResult(user, rrid, p, FALSE), OK)
                /\ NotPublished(DraftCreateResult(user, rrid, p), CREATED)

-----------------------------------------------------------------------------
(* The draft race specification: draft updates, diff uploads and           *)
(* screenshot caption updates on review request 1 whose storage steps      *)
(* interleave.  prepare_draft is a SELECT, then an INSERT when nothing was *)
(* found, then on IntegrityError a second SELECT; the diff upload looks    *)
(* the draft up first and prepares one only when there is none.            *)

\* no constraint of the storage on ReviewRequestDraft rows
draft_unconstrained(ds, id, row) == FALSE

\* the constraint of the storage on ReviewRequestDraft rows: one row for a
\* review_request
draft_violates_unique(ds, id, row) ==
    \E d \in DOMAIN ds \ {id} : ds[d].review_request = row.review_request

\* a draft request in flight and the ReviewRequestDraft object it holds
InflightDraft(kind, user, p, pc, id, draft, raced) ==
    [kind |-> kind, user |-> user, p |-> p, pc |-> pc, id |-> id,
     draft |-> draft, raced |-> raced]

\* the handler up to prepare_draft; the diff upload up to its own look-up
PrepareBegin(req, kind, user, p) ==
    /\ req \notin DOMAIN inflight
    /\ UNCHANGED <<profiles, draft_vars, review_vars, comment_vars>>
    /\ IF ~ReviewRequestExists(1)
       THEN resp' = Response(kind, DOES_NOT_EXIST, NULL) /\ UNCHANGED inflight
       ELSE IF ~is_mutable_by(review_requests[1], user)
       THEN resp' = Response(kind, PERMISSION_DENIED, NULL) /\ UNCHANGED inflight
       ELSE /\ UNCHANGED resp
            /\ IF kind = "diff_create" /\ DraftsOf(drafts, 1) # {}
               THEN \E d \in DraftsOf(drafts, 1) :
                        inflight' = Insert(inflight, req,
                            InflightDraft(kind, user, p, "finish", d,
                                          drafts[d], FALSE))
               ELSE inflight' = Insert(inflight, req,
                        InflightDraft(kind, user, p, "get", NULL, NoDraft, FALSE))

\* ReviewRequestDraft.create, the SELECT
PrepareGet(req) ==
    /\ req \in DOMAIN inflight
    /\ inflight[req].pc = "get"
    /\ UNCHANGED <<profiles, draft_vars, review_vars, comment_vars, resp>>
    /\ IF DraftsOf(drafts, 1) = {}
       THEN inflight' = [inflight EXCEPT ![req].pc = "insert"]
       ELSE \E d \in DraftsOf(drafts, 1) :
                inflight' = [inflight EXCEPT ![req].pc = "finish",
                                             ![req].id = d,
                                             ![req].draft = drafts[d]]

\* ReviewRequestDraft.create, the INSERT and the SELECT after an
\* IntegrityError
PrepareInsert(req) ==
    /\ req \in DOMAIN inflight
    /\ inflight[req].pc = "insert"
    /\ UNCHANGED <<profiles, review_requests, next_review_request_id, screenshots,
                   review_vars, comment_vars, resp>>
    /\ LET created == ReviewRequestDraft_insert(drafts, next_draft_id, 1,
                                                review_requests[1])
           row == created.drafts[created.id]
       IN  IF draft_violates_unique(drafts, created.id, row)
           THEN /\ UNCHANGED <<drafts, next_draft_id>>
                /\ \E d \in DraftsOf(drafts, 1) :
                       inflight' = [inflight EXCEPT ![req].pc = "finish",
                                                    ![req].id = d,
                                                    ![req].draft = drafts[d],
                                                    ![req].raced = TRUE]
           ELSE /\ next_draft_id <= MaxDrafts
                /\ drafts' = created.drafts
                /\ next_draft_id' = created.next_draft_id
                /\ inflight' = [inflight EXCEPT ![req].pc = "finish",
                                                ![req].id = created.id,
                                                ![req].draft = row]

\* the handler after prepare_draft: the fields are set on the object held
\* and it is saved (a save of a row that is gone inserts it again); a
\* draft update that asks for it then publishes
PrepareFinish(req) ==
    /\ req \in DOMAIN inflight
    /\ inflight[req].pc = "finish"
    /\ UNCHANGED <<profiles, next_draft_id, next_review_request_id, review_vars,
                   comment_vars>>
    /\ inflight' = Remove(inflight, {req})
    /\ LET q == inflight[req]
           row == CASE q.kind = "draft_update" ->
                          [q.draft EXCEPT !.summary = IF q.p.summary = Absent
                                                      THEN @ ELSE q.p.summary]
                    [] q.kind = "diff_create" ->
                          [q.draft EXCEPT !.diffset = "uploaded"]
                    [] q.kind = "screenshot_update" -> q.draft
           saves == q.kind # "screenshot_update"
           refused == /\ saves
                      /\ q.id \notin DOMAIN drafts
                      /\ draft_violates_unique(drafts, q.id, row)
           ds == IF saves /\ ~refused THEN Insert(drafts, q.id, row) ELSE drafts
           published == ReviewRequest_publish(review_requests, ds, 1)
       IN  IF refused
           THEN /\ resp' = Response(q.kind, INTEGRITY_ERROR, q.id)
                /\ UNCHANGED <<review_requests, drafts, screenshots>>
           ELSE IF q.kind = "draft_update" /\ publish_requested(q.p)
           THEN /\ review_requests' = published.review_requests
                /\ drafts' = published.drafts
                /\ resp' = Response(q.kind, SEE_OTHER, q.id)
                /\ UNCHANGED screenshots
           ELSE /\ drafts' = ds
                /\ screenshots' =
                       IF q.kind = "screenshot_update"
                       THEN [screenshots EXCEPT ![1].draft_caption = "cap"]
                       ELSE screenshots
                /\ resp' = Response(q.kind,
                                    IF q.kind = "diff_create" THEN CREATED ELSE OK,
                                    q.id)
                /\ UNCHANGED review_requests

InitDraftRace ==
    /\ review_requests = (1 :> ReviewRequestRow("alice", FALSE, "P", "", {}))
    /\ drafts = <<>>
    /\ next_draft_id = 1
    /\ next_review_request_id = 2
    /\ screenshots = InitScreenshots
    /\ reviews = <<>>
    /\ next_review_id = 1
    /\ comments = <<>>
    /\ next_comment_id = 1
    /\ screenshot_comments = <<>>
    /\ next_screenshot_comment_id = 1
    /\ inflight = <<>>
    /\ profiles = <<>>
    /\ resp = NoRequest

RaceDraftPayloads ==
    {DraftPayload(Absent, Absent, NotSent, Absent),
     DraftPayload("Fix bug", Absent, NotSent, "1")}

DraftRequestKinds == {"draft_update", "diff_create", "screenshot_update"}

NextDraftRace ==
    \E req \in Requests :
        \/ \E kind \in DraftRequestKinds, user \in Users, p \in RaceDraftPayloads :
               PrepareBegin(req, kind, user, p)
        \/ PrepareGet(req)
        \/ PrepareInsert(req)
        \/ PrepareFinish(req)

SpecDraftRace == InitDraftRace /\ [][NextDraftRace]_vars

-----------------------------------------------------------------------------
(* The draft editing specification: sequential requests on the draft of    *)
(* one review request that alice owns and has not published, with payloads *)
(* that fail validation, name the list fields or name an immutable field.  *)

InitDraftEdit ==
    /\ review_requests = (1 :> ReviewRequestRow("alice", FALSE, "P", "Old", {}))
    /\ drafts = <<>>
    /\ next_draft_id = 1
    /\ next_review_request_id = 2
    /\ screenshots = InitScreenshots
    /\ reviews = <<>>
    /\ next_review_id = 1
    /\ comments = <<>>
    /\ next_comment_id = 1
    /\ screenshot_comments = <<>>
    /\ next_screenshot_comment_id = 1
    /\ inflight = <<>>
    /\ profiles = <<>>
    /\ resp = NoRequest

EditPayloads ==
    {DraftEditPayload(Absent, "d1", NotSent, NotSent, Absent, Absent),
     DraftEditPayload("Fix\nbug", "d2", NotSent, NotSent, Absent, Absent),
     DraftEditPayload(Absent, Absent, <<"g1">>, <<"bob">>, Absent, Absent),
     DraftEditPayload(Absent, Absent, <<"zz">>, NotSent, Absent, Absent),
     DraftEditPayload(Absent, Absent, NotSent, <<"alice", "nobody">>, Absent, Absent),
     DraftEditPayload("Fix\nbug", Absent, <<"zz">>, NotSent, Absent, "1"),
     DraftEditPayload("New", Absent, NotSent, NotSent, Absent, "1"),
     DraftEditPayload(Absent, "d3", NotSent, NotSent, "5", Absent),
     DraftEditPayload(Absent, Absent, <<"", "">>, <<"alice", " ">>, Absent, Absent)}

NextDraftEdit ==
    \E user \in Users, rrid \in ReviewRequestIds :
        \/ \E p \in EditPayloads : DraftUpdate(user, rrid, p)
        \/ \E p \in EditPayloads : DraftCreate(user, rrid, p)
        \/ DraftDelete(user, rrid)
        \/ DraftGet(user, rrid)
        \/ \E form_valid \in BOOLEAN : DiffCreate(user, rrid, form_valid)
        \/ \E screenshot_id \in DOMAIN ScreenshotReviewRequest :
               ScreenshotUpdate(user, rrid, screenshot_id, "cap")

SpecDraftEdit == InitDraftEdit /\ [][NextDraftEdit]_vars

\* the value a field of the draft of a review request has in the storage:
\* the draft's, or none when the review request has no draft
Persisted(ds, rrid, field) == {ds[d][field] : d \in DraftsOf(ds, rrid)}

\* C11: a draft update or create (save not forced) whose payload carries a
\* description and a summary with a line break is answered InvalidInput,
\* the field map names summary and not description, and the description
\* and the summary of the draft in the storage are what they were before.
ScalarFieldsKeptOnInvalidInput ==
    \A user \in Users, rrid \in DOMAIN review_requests, p \in EditPayloads :
        LET Rejected(result) ==
                /\ result.code = INVALID_FORM_DATA
                /\ "summary" \in result.fields
                /\ "description" \notin result.fields
                /\ \A field \in {"description", "summary"} :
                       \A d \in DraftsOf(result.drafts, rrid) :
                           result.drafts[d][field] =
                               IF d \in DOMAIN drafts THEN drafts[d][field]
                               ELSE review_requests[rrid][field]
        IN  (/\ is_mutable_by(review_requests[rrid], user)
             /\ p.id = Absent
             /\ p.description # Absent
             /\ p.summary = "Fix\nbug") =>
                /\ Rejected(DraftUpdateResult(user, rrid, p, FALSE))
                /\ Rejected(DraftCreateResult(user, rrid, p))

\* C11 witness: an update was rejected for its summary alone while the
\* draft holds the description and the summary staged before
SummaryRejectedDescriptionKept ==
    /\ resp.op = "draft_update"
    /\ resp.code = INVALID_FORM_DATA
    /\ resp.fields = {"summary"}
    /\ resp.id \in DOMAIN drafts
    /\ drafts[resp.id].description = "d1"
    /\ drafts[resp.id].summary = "Old"

\* C12: a draft update or create (save not forced) that is answered
\* InvalidInput leaves the target_groups and target_people of the draft in
\* the storage as they were before the request.
ListFieldsKeptOnInvalidInput ==
    \A user \in Users, rrid \in DOMAIN review_requests, p \in EditPayloads :
        LET Kept(result) ==
                result.code = INVALID_FORM_DATA =>
                    \A field \in {"target_groups", "target_people"} :
                        DraftsOf(drafts, rrid) # {} =>
                            Persisted(result.drafts, rrid, field) =
                                Persisted(drafts, rrid, field)
        IN  /\ Kept(DraftUpdateResult(user, rrid, p, FALSE))
            /\ Kept(DraftCreateResult(user, rrid, p))

\* C13: a draft update or create that is answered InvalidInput for a review
\* request without a draft leaves the review request without a draft.
NothingPersistedOnInvalidInput ==
    \A user \in Users, rrid \in DOMAIN review_requests, p \in EditPayloads :
        LET NoneAfter(result) ==
                result.code = INVALID_FORM_DATA =>
                    DraftsOf(result.drafts, rrid) = {}
        IN  DraftsOf(drafts, rrid) = {} =>
                /\ NoneAfter(DraftUpdateResult(user, rrid, p, FALSE))
                /\ NoneAfter(DraftCreateResult(user, rrid, p))

\* C14: a draft update or create that asks for the publish while a field it
\* submits fails validation (a summary with a line break, a group or a user
\* that does not resolve) is answered InvalidInput, whether or not the save
\* is forced: the review request keeps every field and its public flag, and
\* its draft is still there.
NoPublishOnInvalidInput ==
    \A user \in Users, rrid \in DOMAIN review_requests, p \in EditPayloads,
       always_save \in BOOLEAN :
        LET fails == \/ p.summary = "Fix\nbug"
                     \/ p.target_groups # NotSent
                        /\ Unresolved(p.target_groups, Groups) # {}
                     \/ p.target_people # NotSent
                        /\ Unresolved(p.target_people, Users) # {}
            Refused(result) ==
                /\ result.code = INVALID_FORM_DATA
                /\ result.review_requests = review_requests
                /\ DraftsOf(drafts, rrid) \subseteq DraftsOf(result.drafts, rrid)
                /\ DraftsOf(result.drafts, rrid) # {}
        IN  (/\ is_mutable_by(review_requests[rrid], user)
             /\ p.id = Absent
             /\ Truthy(p.public)
             /\ fails) =>
                /\ Refused(DraftUpdateResult(user, rrid, p, always_save))
                /\ always_save = FALSE => Refused(DraftCreateResult(user, rrid, p))

\* C14 witness: the update that asked for the publish was rejected for its
\* summary and its group; the review request is not public, keeps its
\* summary, and has its draft
PublishRefusedOnInvalidInput ==
    /\ resp.op = "draft_update"
    /\ resp.code = INVALID_FORM_DATA
    /\ resp.fields = {"summary", "target_groups"}
    /\ resp.id \in DOMAIN drafts
    /\ drafts[resp.id].description = "d1"
    /\ ~review_requests[1].public
    /\ review_requests[1].summary = "Old"

\* C15: a draft delete is answered NotFound when the review request has no
\* draft, whoever asks; PermissionDenied, the draft left as it is, when
\* there is a draft and the user may not modify the review request; and
\* otherwise it removes the draft and nothing else: the review requests
\* and the screenshots are as before.
DraftDeleteContract ==
    \A user \in Users, rrid \in DOMAIN review_requests :
        LET result == DraftDeleteResult(user, rrid)
        IN  /\ result.review_requests = review_requests
            /\ result.screenshots = screenshots
            /\ result.next_draft_id = next_draft_id
            /\ IF DraftsOf(drafts, rrid) = {}
               THEN result.code = DOES_NOT_EXIST /\ result.drafts = drafts
               ELSE IF ~is_mutable_by(review_requests[rrid], user)
               THEN result.code = PERMISSION_DENIED /\ result.drafts = drafts
               ELSE /\ result.code = NO_CONTENT
                    /\ DraftsOf(result.drafts, rrid) = {}
                    /\ \A d \in DOMAIN drafts \ DraftsOf(drafts, rrid) :
                           d \in DOMAIN result.drafts
                           /\ result.drafts[d] = drafts[d]

\* C15 witness: the owner's delete removed the draft that had been
\* prepared, and the review request is as it was created
DraftDiscarded ==
    /\ resp.op = "draft_delete"
    /\ resp.code = NO_CONTENT
    /\ resp.id = 1
    /\ next_draft_id = 2
    /\ drafts = <<>>
    /\ review_requests[1] = ReviewRequestRow("alice", FALSE, "P", "Old", {})

DraftGetDeniedWithoutPermission ==
    \A user \in Users, rrid \in DOMAIN review_requests :
        (/\ DraftsOf(drafts, rrid) # {}
         /\ ~is_mutable_by(review_requests[rrid], user)) =>
            /\ DraftGetResult(user, rrid).code = PERMISSION_DENIED
            /\ DraftGetResult(user, rrid).body = NoDraft

\* C18: a draft create or update whose payload names the immutable field id
\* is answered InvalidInput, the field map names id, and no other field of
\* the payload is applied: review requests and drafts are as before.
ImmutableFieldRejected ==
    \A user \in Users, rrid \in ReviewRequestIds, p \in EditPayloads :
        LET Rejected(result) ==
                /\ result.code = INVALID_FORM_DATA
                /\ "id" \in result.fields
                /\ result.drafts = drafts
                /\ result.review_requests = review_requests
        IN  p.id # Absent =>
                /\ Rejected(DraftUpdateResult(user, rrid, p, FALSE))
                /\ Rejected(DraftCreateResult(user, rrid, p))

\* C18 witness: the owner's create that named id next to a description was
\* rejected for id, and the draft staged before keeps its description
ImmutableFieldRefused ==
    /\ resp.op = "draft_create"
    /\ resp.code = INVALID_FORM_DATA
    /\ resp.fields = {"id"}
    /\ \E d \in DraftsOf(drafts, 1) : drafts[d].description = "d1"

-----------------------------------------------------------------------------
(* The reply specification: replies to the published review of alice, with *)
(* payloads that set, clear or omit body_top and body_bottom.              *)

InitReply ==
    /\ review_requests = (1 :> ReviewRequestRow("alice", TRUE, "P", "Fix bug", {}))
    /\ drafts = <<>>
    /\ next_draft_id = 1
    /\ next_review_request_id = 2
    /\ screenshots = InitScreenshots
    /\ reviews = (1 :> Review_publish(NewReview(1, "alice", NULL)))
    /\ next_review_id = 2
    /\ comments = <<>>
    /\ next_comment_id = 1
    /\ screenshot_comments = <<>>
    /\ next_screenshot_comment_id = 1
    /\ inflight = <<>>
    /\ profiles = <<>>
    /\ resp = NoRequest

ReplyPayloads ==
    {ReviewPayload(Absent, Absent, Absent, Absent),
     ReviewPayload(Absent, "x", Absent, Absent),
     ReviewPayload(Absent, Absent, "y", Absent),
     ReviewPayload(Absent, "", Absent, Absent),
     ReviewPayload(Absent, "x", "", Absent),
     ReviewPayload(Absent, Absent, Absent, "1")}

ReplyIds == 1..(MaxReviews + 1)

NextReply ==
    \E user \in Users, reply_id \in ReplyIds, p \in ReplyPayloads :
        \/ ReplyCreate(user, 1, 1, p)
        \/ ReplyUpdate(user, 1, 1, reply_id, p)
        \/ ReplyDelete(user, 1, 1, reply_id)
        \/ ReviewUpdate(user, 1, reply_id, p)

SpecReply == InitReply /\ [][NextReply]_vars

\* C19: for every reply and each of body_top and body_bottom, the
\* back-reference is empty exactly when the text is the empty string and
\* otherwise is the reply's base_reply_to; and a reply create or update that
\* omits the field leaves its text and its back-reference as they were.
ReplyBackReferences ==
    /\ \A r \in DOMAIN reviews :
           reviews[r].base_reply_to # NULL =>
               /\ reviews[r].body_top_reply_to =
                      IF reviews[r].body_top = "" THEN NULL
                      ELSE reviews[r].base_reply_to
               /\ reviews[r].body_bottom_reply_to =
                      IF reviews[r].body_bottom = "" THEN NULL
                      ELSE reviews[r].base_reply_to
    /\ \A user \in Users, reply_id \in DOMAIN reviews, p \in ReplyPayloads :
           LET Kept(result, id) ==
                   id \in DOMAIN reviews =>
                       /\ p.body_top = Absent =>
                              /\ result.reviews[id].body_top = reviews[id].body_top
                              /\ result.reviews[id].body_top_reply_to =
                                     reviews[id].body_top_reply_to
                       /\ p.body_bottom = Absent =>
                              /\ result.reviews[id].body_bottom =
                                     reviews[id].body_bottom
                              /\ result.reviews[id].body_bottom_reply_to =
                                     reviews[id].body_bottom_reply_to
           IN  /\ Kept(ReplyUpdateResult(user, 1, 1, reply_id, p), reply_id)
               /\ Kept(ReplyCreateResult(user, 1, 1, p),
                       ReplyCreateResult(user, 1, 1, p).id)

\* C19 witness: an update has set body_top and cleared body_bottom of a
\* reply: the first refers to the review replied to, the second to nothing
ReplyTopSetBottomCleared ==
    /\ resp.op = "reply_update"
    /\ resp.code = OK
    /\ resp.id \in DOMAIN reviews
    /\ reviews[resp.id].base_reply_to = 1
    /\ reviews[resp.id].body_top = "x"
    /\ reviews[resp.id].body_top_reply_to = 1
    /\ reviews[resp.id].body_bottom = ""
    /\ reviews[resp.id].body_bottom_reply_to = NULL

\* C20: a reply to diff comment C that is created adds one comment, on the
\* reply, whose filediff, interfilediff, first_line and num_lines are those
\* of C, whose reply_to is C and whose text is the text of the request,
\* whatever that text is; and the author of a pending reply can create one
\* to every comment of the review replied to that the author can see.
ReplyMirrorsParentPosition ==
    \A user \in Users, review_id \in DOMAIN reviews, reply_id \in DOMAIN reviews,
       reply_to_id \in DOMAIN comments, text \in {"r", "", "10"} :
        LET result == ReplyDiffCommentCreateResult(user, 1, review_id, reply_id,
                                                   reply_to_id, text)
            C == comments[reply_to_id]
            new == result.comments[result.id]
        IN  /\ result.code = CREATED =>
                   /\ result.id \notin DOMAIN comments
                   /\ DOMAIN result.comments = DOMAIN comments \cup {result.id}
                   /\ \A c \in DOMAIN comments : result.comments[c] = comments[c]
                   /\ new.filediff = C.filediff
                   /\ new.interfilediff = C.interfilediff
                   /\ new.first_line = C.first_line
                   /\ new.num_lines = C.num_lines
                   /\ new.reply_to = reply_to_id
                   /\ new.text = text
                   /\ new.review = reply_id
            /\ (/\ IsReplyAt(1, review_id, reply_id)
                /\ has_modify_permissions(reviews, user, reply_id)
                /\ reply_to_id \in ReviewDiffCommentQueryset(user, 1, review_id)) =>
                   result.code = CREATED

\* C20 witness: a reply comment was created to a comment whose first line
\* had been moved to 20, and it has the range of that comment
ReplyCommentCreatedAtParentRange ==
    /\ resp.op = "reply_diff_comment_create"
    /\ resp.code = CREATED
    /\ resp.id \in DOMAIN comments
    /\ comments[resp.id].reply_to \in DOMAIN comments
    /\ comments[resp.id].first_line = 20
    /\ comments[resp.id].num_lines = 2
    /\ comments[comments[resp.id].reply_to].first_line = 20
    /\ comments[resp.id].text = "r"

-----------------------------------------------------------------------------
(* Claims on the comments of replies *)

\* review r is a reply
IsReply(r) == r \in DOMAIN reviews /\ reviews[r].base_reply_to # NULL

\* every diff comment of a reply replies to a diff comment of the review
\* the reply replies to
DiffReplyCommentsPointBack ==
    \A c \in DOMAIN comments :
        IsReply(comments[c].review) =>
            /\ comments[c].reply_to \in DOMAIN comments
            /\ comments[comments[c].reply_to].review =
                   reviews[comments[c].review].base_reply_to

\* every screenshot comment of a reply replies to a screenshot comment of
\* the review the reply replies to
ScreenshotReplyCommentsPointBack ==
    \A c \in DOMAIN screenshot_comments :
        IsReply(screenshot_comments[c].review) =>
            /\ screenshot_comments[c].reply_to \in DOMAIN screenshot_comments
            /\ screenshot_comments[screenshot_comments[c].reply_to].review =
                   reviews[screenshot_comments[c].review].base_reply_to

\* C21: every comment of a reply, diff comment and screenshot comment
\* alike, has reply_to set to a comment of the review the reply replies
\* to, and a reply comment that is created has the position of that
\* comment: its line range, or its x, y, w, h region.
ReplyCommentsPointBack ==
    /\ DiffReplyCommentsPointBack
    /\ ScreenshotReplyCommentsPointBack
    /\ \A user \in Users, reply_id \in DOMAIN reviews :
           /\ \A reply_to_id \in DOMAIN comments :
                  LET result == ReplyDiffCommentCreateResult(user, 1, 1, reply_id,
                                                             reply_to_id, "r")
                      C == comments[reply_to_id]
                      new == result.comments[result.id]
                  IN  result.code = CREATED =>
                          /\ new.reply_to = reply_to_id
                          /\ new.first_line = C.first_line
                          /\ new.num_lines = C.num_lines
           /\ \A reply_to_id \in DOMAIN screenshot_comments :
                  LET result == ReplyScreenshotCommentCreateResult(
                                    user, 1, 1, reply_id, reply_to_id, "r")
                      C == screenshot_comments[reply_to_id]
                      new == result.screenshot_comments[result.id]
                  IN  result.code = CREATED =>
                          /\ new.reply_to = reply_to_id
                          /\ <<new.x, new.y, new.w, new.h>> = <<C.x, C.y, C.w, C.h>>

\* file diff and screenshot ids that requests may name: those that exist
\* and one that does not
TargetIds == 1..4

\* C22: every diff comment of a review has a filediff of the review's
\* review request and, when it has an interfilediff, one that differs from
\* the filediff and is of the same diff history; every screenshot comment
\* of a review has a screenshot of the review's review request; and a
\* create request of the author of a pending review that breaks one of
\* these is answered InvalidInput keyed by filediff_id, interfilediff_id or
\* screenshot_id and creates no comment, while every other is created.
CommentTargetsValidated ==
    /\ \A c \in DOMAIN comments :
           comments[c].review \in DOMAIN reviews =>
               /\ FileDiffReviewRequest[comments[c].filediff] =
                      reviews[comments[c].review].review_request
               /\ comments[c].interfilediff # NULL =>
                      /\ comments[c].interfilediff # comments[c].filediff
                      /\ FileDiffReviewRequest[comments[c].interfilediff] =
                             FileDiffReviewRequest[comments[c].filediff]
    /\ \A c \in DOMAIN screenshot_comments :
           screenshot_comments[c].review \in DOMAIN reviews =>
               ScreenshotReviewRequest[screenshot_comments[c].screenshot] =
                   reviews[screenshot_comments[c].review].review_request
    /\ \A user \in Users, review_id \in DOMAIN reviews, f \in TargetIds :
           LET History(id) == IF id \in DOMAIN FileDiffReviewRequest
                              THEN FileDiffReviewRequest[id] ELSE NULL
               Screenshot(id) == IF id \in DOMAIN ScreenshotReviewRequest
                                 THEN ScreenshotReviewRequest[id] ELSE NULL
               rrid == reviews[review_id].review_request
               Checked(code, invalid, offending) ==
                   IF offending = {} THEN code = CREATED /\ invalid = {}
                   ELSE code = INVALID_FORM_DATA /\ invalid = offending
           IN  (/\ IsReviewAt(rrid, review_id)
                /\ has_modify_permissions(reviews, user, review_id)) =>
                   /\ \A i \in TargetIds \cup {NULL} :
                          LET result == DiffCommentCreateResult(
                                            user, rrid, review_id, f, i,
                                            DiffCommentCreatePayload)
                              offending ==
                                  IF History(f) # rrid THEN {"filediff_id"}
                                  ELSE IF i # NULL /\ (i = f \/ History(i) # rrid)
                                  THEN {"interfilediff_id"} ELSE {}
                          IN  /\ Checked(result.code,
                                         DiffCommentInvalidFields(rrid, f, i),
                                         offending)
                              /\ result.code # CREATED =>
                                     result.comments = comments
                   /\ LET result == ScreenshotCommentCreateResult(
                                        user, rrid, review_id, f,
                                        ScreenshotCommentCreatePayload)
                      IN  /\ Checked(result.code,
                                     ScreenshotCommentInvalidFields(rrid, f),
                                     IF Screenshot(f) # rrid
                                     THEN {"screenshot_id"} ELSE {})
                          /\ result.code # CREATED =>
                                 result.screenshot_comments = screenshot_comments

\* C22 witness: a diff comment create was answered InvalidInput while the
\* review it named is pending and holds the one comment there is
CommentTargetRefused ==
    /\ resp.op = "diff_comment_create"
    /\ resp.code = INVALID_FORM_DATA
    /\ resp.id \in DOMAIN reviews
    /\ ~reviews[resp.id].public
    /\ DOMAIN comments = {1}
    /\ comments[1].review = resp.id
    /\ comments[1].filediff = 1

-----------------------------------------------------------------------------
(* Updates of a review request, under SpecDraft.                           *)

\* C27: an update of a review request that sets status to a value differing
\* from the current one, by a principal who may not close or reopen it, is
\* answered PermissionDenied and leaves the status (and every table) as it was
StatusChangeNeedsPermission ==
    /\ \A user \in Users, rrid \in DOMAIN review_requests,
          status \in Statuses \ {Absent} :
           (/\ string_to_status(status) # review_requests[rrid].status
            /\ ~is_mutable_by(review_requests[rrid], user)) =>
               LET result == ReviewRequestUpdateResult(user, rrid, status)
               IN  /\ result.code = PERMISSION_DENIED
                   /\ result.review_requests = review_requests
    /\ resp.op = "review_request_update" /\ resp.code = PERMISSION_DENIED =>
           ReviewRequestExists(resp.id)

\* C27 witness: a status change of a discarded review request was refused
StatusChangeRefused ==
    /\ resp.op = "review_request_update"
    /\ resp.code = PERMISSION_DENIED
    /\ ReviewRequestExists(resp.id)
    /\ review_requests[resp.id].status = "D"

\* C28: an update of a review request by a principal who may not modify it
\* is answered PermissionDenied whatever the payload, also when status is
\* not sent or equals the current status
UpdateNeedsModifyPermission ==
    \A user \in Users, rrid \in DOMAIN review_requests, status \in Statuses :
        ~is_mutable_by(review_requests[rrid], user) =>
            ReviewRequestUpdateResult(user, rrid, status).code = PERMISSION_DENIED

-----------------------------------------------------------------------------
(* Watched objects: the review requests and review groups a user starred.  *)

\* the review groups that exist, by primary key
ReviewGroups == [pk \in {1, 2} |-> [name |-> IF pk = 1 THEN "g1" ELSE "g2"]]

\* str(pk): a primary key as it is written in a URL or a request field
str(pk) == CASE pk = 1 -> "1" [] pk = 2 -> "2" [] pk = 3 -> "3"

\* a Profile that starred nothing
NewProfile == [starred_review_requests |-> {}, starred_groups |-> {}]

\* profile_field of the two watched-object resources
profile_field(kind) ==
    IF kind = "review_request" THEN "starred_review_requests" ELSE "starred_groups"

\* Profile.objects.get_or_create(user=request.user)
get_or_create_profile(ps, user) ==
    IF user \in DOMAIN ps THEN ps ELSE Insert(ps, user, NewProfile)

\* a star that undoes a star already there
star_toggles(ps, user, kind, pk) ==
    [ps EXCEPT ![user][profile_field(kind)] =
                   IF pk \in @ THEN @ \ {pk} ELSE @ \cup {pk}]

\* Profile.star_review_request, Profile.star_review_group
star(ps, user, kind, pk) ==
    [ps EXCEPT ![user][profile_field(kind)] = @ \cup {pk}]

\* an unstar that drops every starred object of the kind
unstar_all(ps, user, kind, pk) ==
    [ps EXCEPT ![user][profile_field(kind)] = {}]

\* Profile.unstar_review_request, Profile.unstar_review_group
unstar(ps, user, kind, pk) ==
    [ps EXCEPT ![user][profile_field(kind)] = @ \ {pk}]

\* user_resource.has_modify_permissions: a user modifies only itself
user_has_modify_permissions(request_user, username) == request_user = username

\* ReviewRequest.objects.public(user, status): published or the user's own,
\* of the status when one is given
public(user, status) ==
    {pk \in DOMAIN review_requests :
        /\ review_requests[pk].public \/ review_requests[pk].submitter = user
        /\ status = "all" \/ review_requests[pk].status = status}

\* string_to_status of the status a list request names, 'pending' by
\* default; "all" stands for the None that selects every status
list_status(status) ==
    IF status = Absent THEN "P"
    ELSE IF status = "all" THEN "all" ELSE string_to_status(status)

\* ReviewRequestResource.get_queryset and ReviewGroupResource.get_queryset
\* of the watched resource (no group is invite-only)
watched_resource_queryset(kind, user, is_list, status) ==
    IF kind = "review_request"
    THEN IF is_list THEN public(user, list_status(status))
         ELSE DOMAIN review_requests
    ELSE DOMAIN ReviewGroups

\* watched_resource.get_object: the objects whose model_object_key (pk of a
\* review request, name of a review group) is the identifier given
watched_get_object(kind, user, object_id) ==
    {pk \in watched_resource_queryset(kind, user, FALSE, Absent) :
        IF kind = "review_request" THEN str(pk) = object_id
        ELSE ReviewGroups[pk].name = object_id}

\* BaseWatchedObjectResource.get_queryset
WatchedQueryset(ps, kind, user, username, is_list, status) ==
    IF username \notin DOMAIN ps THEN {}
    ELSE watched_resource_queryset(kind, user, is_list, status)
             \cap ps[username][profile_field(kind)]

\* BaseWatchedObjectResource.serialize_object
WatchedEntry(pk) == [id |-> pk, watched |-> pk]

\* BaseWatchedObjectResource.get_list: the entries of the list
WatchedListResult(ps, kind, user, username, status) ==
    {WatchedEntry(pk) : pk \in WatchedQueryset(ps, kind, user, username, TRUE, status)}

\* the outcome of a watched-object request that changes nothing
WatchedUnchanged(ps, code) == [profiles |-> ps, code |-> code, id |-> NULL]

\* BaseWatchedObjectResource.create
WatchedCreateResult(ps, kind, user, username, object_id) ==
    IF watched_get_object(kind, user, object_id) = {} \/ username \notin Users
    THEN WatchedUnchanged(ps, DOES_NOT_EXIST)
    ELSE IF ~user_has_modify_permissions(user, username)
    THEN WatchedUnchanged(ps, PERMISSION_DENIED)
    ELSE LET obj == CHOOSE pk \in watched_get_object(kind, user, object_id) : TRUE
         IN  [profiles |-> star(get_or_create_profile(ps, user), user, kind, obj),
              code |-> CREATED, id |-> obj]

\* BaseWatchedObjectResource.delete
WatchedDeleteResult(ps, kind, user, username, watched_obj_id) ==
    IF watched_get_object(kind, user, watched_obj_id) = {} \/ username \notin Users
    THEN WatchedUnchanged(ps, DOES_NOT_EXIST)
    ELSE IF ~user_has_modify_permissions(user, username)
    THEN WatchedUnchanged(ps, PERMISSION_DENIED)
    ELSE LET obj == CHOOSE pk \in watched_get_object(kind, user, watched_obj_id) : TRUE
             profile_is_new == user \notin DOMAIN ps
         IN  [profiles |-> IF ~profile_is_new THEN unstar(ps, user, kind, obj)
                           ELSE get_or_create_profile(ps, user),
              code |-> NO_CONTENT, id |-> obj]

\* what P starred of a kind; nothing when P has no Profile
Starred(ps, user, kind) ==
    IF user \in DOMAIN ps THEN ps[user][profile_field(kind)] ELSE {}

\* the response to a watched-object request: as Response, with the user and
\* kind of the request, whether the object was starred when the request
\* arrived, and the entries of a list
WatchedResponse(op, code, id, user, kind, entries) ==
    [op |-> op, code |-> code, id |-> id, user |-> user, kind |-> kind,
     was_starred |-> id \in Starred(profiles, user, kind), entries |-> entries]

\* a watched-object request, handled to completion
WatchedHandled(op, user, kind, result) ==
    /\ profiles' = result.profiles
    /\ resp' = WatchedResponse(op, result.code, result.id, user, kind, {})
    /\ UNCHANGED <<draft_vars, review_vars, comment_vars, inflight>>

WatchedCreate(kind, user, username, object_id) ==
    WatchedHandled("watched_create", user, kind,
                   WatchedCreateResult(profiles, kind, user, username, object_id))

WatchedDelete(kind, user, username, watched_obj_id) ==
    WatchedHandled("watched_delete", user, kind,
                   WatchedDeleteResult(profiles, kind, user, username, watched_obj_id))

\* the body of a list response: the items, or nothing but their count
ItemsBody(items) == [only_count |-> FALSE, items |-> items, count |-> NULL]

CountBody(count) == [only_count |-> TRUE, items |-> {}, count |-> count]

\* WebAPIResource.get_list: with counts-only, the count of the queryset
\* instead of the items
get_list(queryset, counts_only) ==
    IF Truthy(counts_only) THEN CountBody(Cardinality(queryset))
    ELSE ItemsBody(queryset)

\* BaseWatchedObjectResource.get_list, which replaces WebAPIResource.get_list
WatchedGetListResult(ps, kind, user, username, status, counts_only) ==
    ItemsBody(WatchedListResult(ps, kind, user, username, status))

WatchedList(kind, user, username, status, counts_only) ==
    /\ resp' = WatchedResponse("watched_list", OK, NULL, user, kind,
                   WatchedGetListResult(profiles, kind, user, username, status,
                                        counts_only).items)
    /\ UNCHANGED <<draft_vars, review_vars, comment_vars, inflight, profiles>>

-----------------------------------------------------------------------------
(* The watch specification: users star, unstar and list review requests    *)
(* and review groups, while the owners close and reopen review requests.   *)

InitWatched ==
    /\ review_requests =
           [i \in {1, 2} |->
               IF i = 1 THEN ReviewRequestRow("alice", TRUE, "P", "Fix bug", {})
               ELSE ReviewRequestRow("bob", TRUE, "P", "Add test", {})]
    /\ drafts = <<>>
    /\ next_draft_id = 1
    /\ next_review_request_id = 3
    /\ screenshots = InitScreenshots
    /\ reviews = <<>>
    /\ next_review_id = 1
    /\ comments = <<>>
    /\ next_comment_id = 1
    /\ screenshot_comments = <<>>
    /\ next_screenshot_comment_id = 1
    /\ inflight = <<>>
    /\ profiles = <<>>
    /\ resp = NoRequest

Kinds == {"review_request", "review_group"}

\* the identifiers requests name: primary keys of review requests that exist
\* (1, 2) or not (3), and the name of the review group
ObjectIds == {"1", "2", "3", "g1"}

\* the users named in the URL: the users that exist and one that does not
Usernames == Users \cup {"carol"}

ListStatuses == {Absent, "all"}

NextWatched ==
    \E user \in Users :
        \/ \E kind \in Kinds, username \in Usernames, object_id \in ObjectIds :
               \/ WatchedCreate(kind, user, username, object_id)
               \/ WatchedDelete(kind, user, username, object_id)
        \/ \E kind \in Kinds, username \in Usernames, status \in ListStatuses,
              counts_only \in {Absent, "1"} :
               WatchedList(kind, user, username, status, counts_only)
        \/ \E rrid \in {1, 2}, status \in Statuses \ {Absent} :
               ReviewRequestUpdate(user, rrid, status)

SpecWatched == InitWatched /\ [][NextWatched]_vars

\* C23: for every principal P and target T that exists (a review request
\* named by its id, a review group named by its name), star(P,T) followed by
\* star(P,T) leaves P's watch set as a single star(P,T) leaves it, with T in
\* it, and both calls succeed
StarTwiceIsStarOnce ==
    /\ \A kind \in Kinds, user \in Users, object_id \in ObjectIds :
           watched_get_object(kind, user, object_id) # {} =>
               LET obj == CHOOSE pk \in watched_get_object(kind, user, object_id) : TRUE
                   once == WatchedCreateResult(profiles, kind, user, user, object_id)
                   twice == WatchedCreateResult(once.profiles, kind, user, user,
                                                object_id)
               IN  /\ once.code = CREATED /\ twice.code = CREATED
                   /\ twice.profiles = once.profiles
                   /\ Starred(once.profiles, user, kind) =
                          Starred(profiles, user, kind) \cup {obj}
    /\ resp.op = "watched_create" /\ resp.code = CREATED =>
           resp.id \in Starred(profiles, resp.user, resp.kind)

\* C23 witness: a star of a review group the user had starred already
\* succeeded, and the group is in the user's watch set
StarredAgain ==
    /\ resp.op = "watched_create"
    /\ resp.code = CREATED
    /\ resp.kind = "review_group"
    /\ resp.was_starred
    /\ Starred(profiles, resp.user, resp.kind) = {resp.id}

\* C24: unstar(P,T) for a target T that exists and that P has not starred,
\* also when P has no Profile yet, succeeds with 204 and leaves T out of P's
\* watch set and every watch set as it was
UnstarOfUnstarredIsNoOp ==
    /\ \A kind \in Kinds, user \in Users, object_id \in ObjectIds :
           LET found == watched_get_object(kind, user, object_id)
           IN  (found # {} /\ found \cap Starred(profiles, user, kind) = {}) =>
                   LET result == WatchedDeleteResult(profiles, kind, user, user,
                                                     object_id)
                   IN  /\ result.code = NO_CONTENT
                       /\ \A u \in Users, k \in Kinds :
                              Starred(result.profiles, u, k) = Starred(profiles, u, k)
    /\ (resp.op = "watched_delete" /\ resp.code = NO_CONTENT) =>
           resp.id \notin Starred(profiles, resp.user, resp.kind)

\* C24 witness: an unstar of a review request the user had not starred
\* succeeded while the user's watch set holds another review request
UnstarredTheUnstarred ==
    /\ resp.op = "watched_delete"
    /\ resp.code = NO_CONTENT
    /\ resp.kind = "review_request"
    /\ ~resp.was_starred
    /\ Starred(profiles, resp.user, resp.kind) # {}

\* the targets the watch list of P shows to P, by default
Listed(kind, user) ==
    {e.watched : e \in WatchedListResult(profiles, kind, user, user, Absent)}

\* C25: the watch list of P returns exactly the targets P has starred and
\* not unstarred since, whatever their current status
WatchListIsStarredSet ==
    \A kind \in Kinds, user \in Users :
        Listed(kind, user) = Starred(profiles, user, kind)

\* the watch list never shows what P did not star
WatchListWithinStarredSet ==
    \A kind \in Kinds, user \in Users, username \in Users, status \in ListStatuses :
        {e.watched : e \in WatchedListResult(profiles, kind, user, username, status)}
            \subseteq Starred(profiles, username, kind)

\* unstar with the id of a list entry removes exactly the entry's target
EntryIdUnstars(kind) ==
    \A user \in Users :
        \A e \in WatchedListResult(profiles, kind, user, user, "all") :
            LET result == WatchedDeleteResult(profiles, kind, user, user, str(e.id))
            IN  /\ result.code = NO_CONTENT
                /\ Starred(result.profiles, user, kind) =
                       Starred(profiles, user, kind) \ {e.watched}

ReviewRequestEntryIdUnstars == EntryIdUnstars("review_request")

\* C26: for every entry of the watch list of P, of review requests and of
\* review groups alike, unstar with the entry's id removes exactly that
\* target from P's watch set
EveryEntryIdUnstars == \A kind \in Kinds : EntryIdUnstars(kind)

-----------------------------------------------------------------------------
(* Read access: reviews and replies created, and diffs fetched, under a    *)
(* review request that is not published.                                   *)

\* ReviewRequest.is_accessible_by: a review request that is not published
\* is readable only by those who may modify it
is_accessible_by(rr, user) == rr.public \/ is_mutable_by(rr, user)

\* BaseReviewResource.has_access_permissions
has_access_permissions(review, user) == review.public \/ review.user = user

\* the revisions of the diffs in the history of a review request: one diff,
\* holding the per-file diffs of the review request
DiffRevisions(rrid) ==
    IF \E f \in DOMAIN FileDiffReviewRequest : FileDiffReviewRequest[f] = rrid
    THEN {1} ELSE {}

\* FileDiffResource.get_queryset
FileDiffQueryset(rrid, diff_revision) ==
    {f \in DOMAIN FileDiffReviewRequest :
        FileDiffReviewRequest[f] = rrid /\ diff_revision \in DiffRevisions(rrid)}

\* the representations a diff or per-file diff is asked in
PATCH == "text/x-patch"
DIFF_DATA == "application/vnd.reviewboard.org.diff.data+json"
JSON == "application/json"

\* the media types DiffResource and FileDiffResource declare, in order
DiffMimetypes == <<JSON, PATCH>>
FileDiffMimetypes == <<JSON, PATCH, DIFF_DATA>>

\* None, where a media type is expected
NoMimetype == "<none>"

\* an exception that no handler catches: the response is a server error
SERVER_ERROR == "500"

\* an Accept header: the media types it asks for, in order of preference,
\* and those it refuses (q=0)
Accept(acceptable, unacceptable) ==
    [acceptable |-> acceptable, unacceptable |-> unacceptable]

\* the first element of a sequence that is in a set, or none
RECURSIVE first_in(_, _, _)
first_in(seq, set, none) ==
    IF seq = <<>> THEN none
    ELSE IF Head(seq) \in set THEN Head(seq) ELSE first_in(Tail(seq), set, none)

\* get_http_requested_mimetype: the first acceptable type that is supported,
\* else the first supported type that is not refused, else None
get_http_requested_mimetype(accept, supported) ==
    LET asked == first_in(accept.acceptable, Entries(supported), NoMimetype)
    IN  IF asked # NoMimetype THEN asked
        ELSE first_in(supported, Entries(supported) \ accept.unacceptable, NoMimetype)

\* the answer to a get: the status code and what the body holds
GetResult(code, id, body) == [code |-> code, id |-> id, body |-> body]

\* DiffResource.get, with DiffResource._get_patch for text/x-patch and the
\* base resource's get otherwise
DiffGetResult(user, rrid, diff_revision, mimetype) ==
    IF ~ReviewRequestExists(rrid) \/ diff_revision \notin DiffRevisions(rrid)
    THEN GetResult(DOES_NOT_EXIST, NULL, "")
    ELSE IF mimetype = PATCH
    THEN GetResult(OK, diff_revision, "raw_diff")
    ELSE IF ~is_accessible_by(review_requests[rrid], user)
    THEN GetResult(PERMISSION_DENIED, diff_revision, "")
    ELSE GetResult(OK, diff_revision, "fields")

\* FileDiffResource.get, with _get_patch for text/x-patch, _get_diff_data
\* for the diff-data types and the base resource's get otherwise
\* (FileDiffResource does not override has_access_permissions)
\* with no media type at all, mimetype.startswith raises before any lookup
FileDiffGetResult(user, rrid, diff_revision, filediff_id, mimetype) ==
    IF mimetype = NoMimetype
    THEN GetResult(SERVER_ERROR, NULL, "")
    ELSE IF ~ReviewRequestExists(rrid)
           \/ filediff_id \notin FileDiffQueryset(rrid, diff_revision)
    THEN GetResult(DOES_NOT_EXIST, NULL, "")
    ELSE IF mimetype = PATCH
    THEN GetResult(OK, filediff_id, "filediff.diff")
    ELSE IF mimetype = DIFF_DATA
    THEN GetResult(OK, filediff_id, "diff_data")
    ELSE GetResult(OK, filediff_id, "fields")

\* the response to a get of a diff: as Response, with the user who asked
\* and what the body holds
GetResponse(op, user, result) ==
    [op |-> op, code |-> result.code, id |-> result.id, user |-> user,
     body |-> result.body]

DiffGet(user, rrid, diff_revision, mimetype) ==
    /\ resp' = GetResponse("diff_get", user,
                           DiffGetResult(user, rrid, diff_revision, mimetype))
    /\ UNCHANGED <<draft_vars, review_vars, comment_vars, inflight, profiles>>

FileDiffGet(user, rrid, diff_revision, filediff_id, mimetype) ==
    /\ resp' = GetResponse("filediff_get", user,
                   FileDiffGetResult(user, rrid, diff_revision, filediff_id, mimetype))
    /\ UNCHANGED <<draft_vars, review_vars, comment_vars, inflight, profiles>>

\* alice's review request 1, with a diff, is not published
InitAccess ==
    /\ review_requests = [i \in {1} |->
                             ReviewRequestRow("alice", FALSE, "P", "Fix bug", {})]
    /\ drafts = <<>>
    /\ next_draft_id = 1
    /\ next_review_request_id = 2
    /\ screenshots = InitScreenshots
    /\ reviews = <<>>
    /\ next_review_id = 1
    /\ comments = <<>>
    /\ next_comment_id = 1
    /\ screenshot_comments = <<>>
    /\ next_screenshot_comment_id = 1
    /\ inflight = <<>>
    /\ profiles = <<>>
    /\ resp = NoRequest

\* the Accept headers of the requests: each declared type, a type no
\* resource knows, and a header that refuses every declared type
Accepts ==
    {Accept(<<JSON>>, {}), Accept(<<PATCH>>, {}), Accept(<<DIFF_DATA>>, {}),
     Accept(<<"image/png">>, {}), Accept(<<"image/png">>, {JSON, PATCH, DIFF_DATA})}

NextAccess ==
    \E user \in Users :
        \/ \E rrid \in {1, 2}, p \in ReviewPayloads : ReviewCreate(user, rrid, p)
        \/ \E review_id \in ReviewIds, p \in ReviewPayloads :
               ReplyCreate(user, 1, review_id, p)
        \/ \E rrid \in {1, 2}, diff_revision \in {1, 2}, accept \in Accepts :
               DiffGet(user, rrid, diff_revision,
                       get_http_requested_mimetype(accept, DiffMimetypes))
        \/ \E rrid \in {1, 2}, filediff_id \in DOMAIN FileDiffReviewRequest,
              accept \in Accepts :
               FileDiffGet(user, rrid, 1, filediff_id,
                           get_http_requested_mimetype(accept, FileDiffMimetypes))

SpecAccess == InitAccess /\ [][NextAccess]_vars

\* C29: creating a review under a review request the principal may not read,
\* or a reply under such a review request or to a review the principal may
\* not read, is answered PermissionDenied and creates no Review
ReviewCreateNeedsReadAccess ==
    \A user \in Users, rrid \in DOMAIN review_requests, p \in ReviewPayloads :
        /\ ~is_accessible_by(review_requests[rrid], user) =>
               LET result == ReviewCreateResult(user, rrid, p)
               IN  result.code = PERMISSION_DENIED /\ result.reviews = reviews
        /\ \A review_id \in ReviewQueryset(reviews, rrid) :
               (\/ ~is_accessible_by(review_requests[rrid], user)
                \/ ~has_access_permissions(reviews[review_id], user)) =>
                   LET result == ReplyCreateResult(user, rrid, review_id, p)
                   IN  result.code = PERMISSION_DENIED /\ result.reviews = reviews

\* the generic representation of a diff is refused to a principal who may
\* not read the review request
DiffFieldsNeedAccess ==
    \A user \in Users, rrid \in DOMAIN review_requests :
        \A diff_revision \in DiffRevisions(rrid) :
            ~is_accessible_by(review_requests[rrid], user) =>
                DiffGetResult(user, rrid, diff_revision, JSON).code = PERMISSION_DENIED

\* C30: a get of a diff or per-file diff as raw patch or diff data is
\* answered PermissionDenied, without diff contents, to a principal who may
\* not read the review request it belongs to
DiffContentsNeedAccess ==
    \A user \in Users, rrid \in DOMAIN review_requests,
       mimetype \in {PATCH, DIFF_DATA} :
        ~is_accessible_by(review_requests[rrid], user) =>
            /\ \A diff_revision \in DiffRevisions(rrid) :
                   mimetype = PATCH =>
                       DiffGetResult(user, rrid, diff_revision, mimetype)
                           = GetResult(PERMISSION_DENIED, diff_revision, "")
            /\ \A filediff_id \in FileDiffQueryset(rrid, 1) :
                   FileDiffGetResult(user, rrid, 1, filediff_id, mimetype)
                       = GetResult(PERMISSION_DENIED, filediff_id, "")

-----------------------------------------------------------------------------
(* The bugs a draft closes.                                                *)

\* ReviewRequestDraftResource._sanitize_bug_ids: the bugs it yields
RECURSIVE sanitized(_)
sanitized(bugs) ==
    IF bugs = <<>> THEN <<>>
    ELSE LET bug == strip(Head(bugs))
         IN  (IF bug = <<>> THEN <<>>
              ELSE IF bug[1] = "#" THEN <<Tail(bug)>> ELSE <<bug>>)
             \o sanitized(Tail(bugs))

sanitize_bug_ids(entries) == sanitized(split(entries, ","))

\* _set_draft_field_data for bugs_closed: the value set on the draft
bugs_closed_stored(data) == join(sanitize_bug_ids(data), ",")

BugChars == {"#", " ", ",", "7"}

\* a draft update that sends bugs_closed, handled to completion: the
\* response shows the field as sent, the bugs stored and their join
DraftSetBugsClosed ==
    /\ inflight # <<>>
    /\ inflight' = <<>>
    /\ resp' = [op |-> "draft_update", code |-> OK, id |-> NULL,
                data |-> inflight[1].bugs_closed,
                bugs |-> sanitize_bug_ids(inflight[1].bugs_closed),
                bugs_closed |-> bugs_closed_stored(inflight[1].bugs_closed)]
    /\ UNCHANGED <<draft_vars, review_vars, comment_vars, profiles>>

\* one draft update on its way, with any bugs_closed of at most MaxLen
\* characters
InitBugs ==
    /\ review_requests = <<>>
    /\ drafts = <<>>
    /\ next_draft_id = 1
    /\ next_review_request_id = 1
    /\ screenshots = InitScreenshots
    /\ reviews = <<>>
    /\ next_review_id = 1
    /\ comments = <<>>
    /\ next_comment_id = 1
    /\ screenshot_comments = <<>>
    /\ next_screenshot_comment_id = 1
    /\ \E data \in Strings(BugChars, MaxLen) :
           inflight = <<[kind |-> "draft_update", bugs_closed |-> data]>>
    /\ profiles = <<>>
    /\ resp = NoRequest

NextBugs == DraftSetBugsClosed

SpecBugs == InitBugs /\ [][NextBugs]_vars

\* the stored value is the comma-join of the bugs kept, in the order sent
BugsJoinedInOrder ==
    resp.op = "draft_update" =>
        /\ resp.bugs_closed = join(resp.bugs, ",")
        /\ Len(resp.bugs) <= Len(split(resp.data, ","))

\* C40: every entry of the stored bugs_closed is a non-empty entry of the
\* input with no whitespace at either end and no '#' at its start
BugsClosedNormalized ==
    resp.op = "draft_update" =>
        \A i \in DOMAIN resp.bugs :
            LET bug == resp.bugs[i]
            IN  /\ bug # <<>>
                /\ bug[1] \notin {"#", " "}
                /\ bug[Len(bug)] # " "

-----------------------------------------------------------------------------
(* List fields of a draft, under SpecDraftEdit.                            *)

\* the symbols of the lists sent: a name that resolves, one that does not,
\* the comma and the blank
ListChars(known) == (IF known = Users THEN {"bob", "nobody"} ELSE {"g1", "zz"})
                        \cup {",", " "}

\* the names a comma-separated list names: what stands between the commas,
\* without the whitespace around it and without the empty entries
NamesIn(L) == {strip(e) : e \in Entries(split(L, ","))} \ {<<>>}

\* a draft update that sends one list field and nothing else
ListPayload(field, L) ==
    [summary |-> Absent, description |-> Absent,
     target_groups |-> IF field = "target_groups" THEN L ELSE NotSent,
     target_people |-> IF field = "target_people" THEN L ELSE NotSent,
     id |-> Absent, public |-> Absent]

\* C39: a draft update that sends target_groups or target_people as the
\* comma-separated list L and succeeds leaves the draft's set equal to the
\* groups or users that L names, whatever the set held before and whatever
\* stray commas L has; and when L has a name that does not resolve the
\* update is answered InvalidInput with that field reported
ListFieldReplaced ==
    \A user \in Users, rrid \in DOMAIN review_requests,
       field \in {"target_groups", "target_people"} :
        LET known == IF field = "target_groups" THEN Groups ELSE Users
        IN  \A L \in Strings(ListChars(known), MaxListLen) :
                LET result == DraftUpdateResult(user, rrid, ListPayload(field, L),
                                                FALSE)
                    named == {k \in known : <<k>> \in NamesIn(L)}
                    unknown == {n \in NamesIn(L) : \A k \in known : n # <<k>>}
                IN  is_mutable_by(review_requests[rrid], user) =>
                        /\ result.code \in {OK, INVALID_FORM_DATA}
                        /\ result.code = OK =>
                               result.drafts[result.id][field] = named
                        /\ unknown # {} =>
                               /\ result.code = INVALID_FORM_DATA
                               /\ result.fields = {field}

\* C39 witness: a draft update that sent both lists (with stray commas and
\* blanks) succeeded, and the draft of the review request, which holds a
\* description set by an earlier update, has no group and alice as its only
\* target user
ListFieldsSetFromText ==
    /\ resp.op = "draft_update"
    /\ resp.code = OK
    /\ resp.id \in DOMAIN drafts
    /\ drafts[resp.id].description = "d1"
    /\ drafts[resp.id].target_groups = {}
    /\ drafts[resp.id].target_people = {"alice"}

-----------------------------------------------------------------------------
(* Lists with counts-only.                                                 *)

\* the list of the reviews of a review request: BaseReviewResource.get_queryset
\* of a list, through WebAPIResource.get_list
ReviewListResult(rrid, counts_only) ==
    get_list({r \in ReviewQueryset(reviews, rrid) : reviews[r].public}, counts_only)

\* a list of reviews asked with counts-only holds the count of the items the
\* same list holds without it, and no item
ReviewCountsOnlyCounts ==
    \A rrid \in DOMAIN review_requests :
        ReviewListResult(rrid, "1") =
            CountBody(Cardinality(ReviewListResult(rrid, Absent).items))

\* C33: a watch list asked with counts-only holds no item but the count of
\* the items the same request gets without counts-only
WatchedCountsOnlyCounts ==
    \A kind \in Kinds, user \in Users, username \in Users, status \in ListStatuses :
        WatchedGetListResult(profiles, kind, user, username, status, "1") =
            CountBody(Cardinality(WatchedGetListResult(profiles, kind, user, username,
                                                       status, Absent).items))

-----------------------------------------------------------------------------
(* The list of review requests.                                            *)

\* get_to_group_query for each name of to-groups, ANDed into the one Q that
\* is handed to a single filter(): the conditions on target_groups all bear
\* on the same row of the relation
to_groups_query(rr, to_groups) ==
    \E g \in rr.target_groups :
        \A name \in Entries(split(to_groups, ",")) : name = <<g>>

\* ReviewRequestResource.get_queryset of a list, for to-groups and status
ReviewRequestListResult(user, to_groups, status) ==
    {pk \in public(user, list_status(status)) :
        to_groups = NotSent \/ to_groups_query(review_requests[pk], to_groups)}

ReviewRequestList(user, to_groups, status) ==
    /\ resp' = [op |-> "review_request_list", code |-> OK, id |-> NULL,
                user |-> user, to_groups |-> to_groups, status |-> status,
                items |-> ReviewRequestListResult(user, to_groups, status)]
    /\ UNCHANGED <<draft_vars, review_vars, comment_vars, inflight, profiles>>

\* alice's review request 1, published or not, pending or submitted, with
\* any of the groups as its target groups
InitList ==
    /\ \E published \in BOOLEAN, status \in {"P", "S"}, target_groups \in SUBSET Groups :
           review_requests = [i \in {1} |->
               ReviewRequestRow("alice", published, status, "Fix bug", target_groups)]
    /\ drafts = <<>>
    /\ next_draft_id = 1
    /\ next_review_request_id = 2
    /\ screenshots = InitScreenshots
    /\ reviews = <<>>
    /\ next_review_id = 1
    /\ comments = <<>>
    /\ next_comment_id = 1
    /\ screenshot_comments = <<>>
    /\ next_screenshot_comment_id = 1
    /\ inflight = <<>>
    /\ profiles = <<>>
    /\ resp = NoRequest

\* the to-groups a list names: no criterion, or a text of names and commas
ToGroups == {NotSent} \cup Strings({"g1", "g2", ","}, MaxListLen)

NextList ==
    \E user \in Users, to_groups \in ToGroups,
       status \in {Absent, "pending", "submitted", "all"} :
        ReviewRequestList(user, to_groups, status)

SpecList == InitList /\ [][NextList]_vars

\* without a status the list holds pending review requests only
ListPendingByDefault ==
    \A user \in Users, to_groups \in ToGroups :
        \A pk \in ReviewRequestListResult(user, to_groups, Absent) :
            review_requests[pk].status = "P"

\* C35: the list holds exactly the review requests the user is shown that
\* have the status asked for (pending when none is) and every group named
\* in to-groups among their target groups
ListMatchesAllCriteria ==
    \A user \in Users, to_groups \in ToGroups,
       status \in {Absent, "pending", "submitted", "all"} :
        ReviewRequestListResult(user, to_groups, status) =
            {pk \in public(user, list_status(status)) :
                to_groups # NotSent =>
                    \A name \in Entries(split(to_groups, ",")) :
                        \E g \in review_requests[pk].target_groups : name = <<g>>}

\* a get of a diff that asks for no representation of its own gets the
\* generic one, the fields, or a structured error
DiffFallsBackToFields ==
    \A user \in Users, rrid \in DOMAIN review_requests, accept \in Accepts :
        LET mimetype == get_http_requested_mimetype(accept, DiffMimetypes)
        IN  mimetype # PATCH =>
                \A diff_revision \in DiffRevisions(rrid) :
                    LET result == DiffGetResult(user, rrid, diff_revision, mimetype)
                    IN  \/ result.code = OK /\ result.body = "fields"
                        \/ result.code = PERMISSION_DENIED

\* C34: a get of a diff or per-file diff whose media type is none of the
\* extra representations the resource declares, also one the resource does
\* not know at all, gets the generic representation, the fields, and never
\* an unstructured failure
UnknownMimetypeFallsBackToFields ==
    /\ DiffFallsBackToFields
    /\ \A user \in Users, rrid \in DOMAIN review_requests, accept \in Accepts :
           LET mimetype == get_http_requested_mimetype(accept, FileDiffMimetypes)
           IN  mimetype \notin {PATCH, DIFF_DATA} =>
                   \A filediff_id \in FileDiffQueryset(rrid, 1) :
                       LET result == FileDiffGetResult(user, rrid, 1, filediff_id,
                                                       mimetype)
                       IN  \/ result.code = OK /\ result.body = "fields"
                           \/ result.code \in {PERMISSION_DENIED, DOES_NOT_EXIST}

-----------------------------------------------------------------------------
(* The reply comment specification: requests on the diff comments of a     *)
(* pending review of alice and of a pending reply of hers to it.           *)

InitReplyComment ==
    /\ review_requests =
           [i \in {1, 2} |-> ReviewRequestRow("alice", TRUE, "P", "Fix bug", {})]
    /\ drafts = <<>>
    /\ next_draft_id = 1
    /\ next_review_request_id = 3
    /\ screenshots = InitScreenshots
    /\ reviews = (1 :> NewReview(1, "alice", NULL)) @@ (2 :> NewReview(1, "alice", 1))
    /\ next_review_id = 3
    /\ comments = <<>>
    /\ next_comment_id = 1
    /\ screenshot_comments = <<>>
    /\ next_screenshot_comment_id = 1
    /\ inflight = <<>>
    /\ profiles = <<>>
    /\ resp = NoRequest

NextReplyComment == DiffCommentStep \/ PublishOrDeleteStep

SpecReplyComment == InitReplyComment /\ [][NextReplyComment]_vars

\* a reply diff comment has the file diff and the line range of the
\* comment it replies to
HasRangeOfParent(c) ==
    LET parent == comments[comments[c].reply_to]
    IN  /\ comments[c].filediff = parent.filediff
        /\ comments[c].first_line = parent.first_line
        /\ comments[c].num_lines = parent.num_lines

\* an update of a reply diff comment leaves its file diff and line range
\* as they are
ReplyCommentUpdateKeepsRange ==
    \A user \in Users, reply_id \in DOMAIN reviews, comment_id \in DOMAIN comments :
        LET result == ReplyDiffCommentUpdateResult(user, 1, 1, reply_id,
                                                   comment_id, "s")
        IN  result.code = OK =>
                /\ result.comments[comment_id].filediff = comments[comment_id].filediff
                /\ result.comments[comment_id].first_line =
                       comments[comment_id].first_line
                /\ result.comments[comment_id].num_lines =
                       comments[comment_id].num_lines

\* C37: every reply diff comment has the file diff, first line and number
\* of lines of the comment it replies to, at its creation and after every
\* later update of the reply comment or of the comment replied to
ReplyCommentsKeepRangeOfParent ==
    \A c \in DOMAIN comments :
        (comments[c].reply_to # NULL /\ comments[c].reply_to \in DOMAIN comments) =>
            HasRangeOfParent(c)

-----------------------------------------------------------------------------
(* The base review specification: reviews and replies under two review     *)
(* requests, each request naming either review request in its path.        *)

InitBaseReview ==
    /\ review_requests =
           [i \in {1, 2} |-> ReviewRequestRow("alice", TRUE, "P", "Fix bug", {})]
    /\ drafts = <<>>
    /\ next_draft_id = 1
    /\ next_review_request_id = 3
    /\ screenshots = InitScreenshots
    /\ reviews = <<>>
    /\ next_review_id = 1
    /\ comments = <<>>
    /\ next_comment_id = 1
    /\ screenshot_comments = <<>>
    /\ next_screenshot_comment_id = 1
    /\ inflight = <<>>
    /\ profiles = <<>>
    /\ resp = NoRequest

NextBaseReview ==
    \E user \in Users, rrid \in {1, 2}, review_id \in ReviewIds :
        \/ \E p \in ReviewPayloads : ReviewCreate(user, rrid, p)
        \/ \E p \in ReviewPayloads : ReplyCreate(user, rrid, review_id, p)
        \/ ReviewUpdate(user, rrid, review_id, PublishPayload)
        \/ ReviewDelete(user, rrid, review_id)
        \/ \E reply_id \in ReviewIds : ReplyDelete(user, rrid, review_id, reply_id)

SpecBaseReview == InitBaseReview /\ [][NextBaseReview]_vars

\* in the table rs, the base_reply_to of every reply is a review that is
\* no reply itself and is on the review request of the reply
BaseReviewsAreTopLevel(rs) ==
    \A r \in DOMAIN rs :
        rs[r].base_reply_to # NULL =>
            /\ rs[r].base_reply_to \in DOMAIN rs
            /\ rs[rs[r].base_reply_to].base_reply_to = NULL
            /\ rs[rs[r].base_reply_to].review_request = rs[r].review_request

\* C38: the base_reply_to of every reply is a top-level review (one with no
\* base_reply_to) of the review request the reply is on; a reply cannot be
\* created under a reply or under a review of another review request
BaseReplyToIsTopLevelReview ==
    /\ BaseReviewsAreTopLevel(reviews)
    /\ \A user \in Users, rrid \in {1, 2}, review_id \in DOMAIN reviews,
          p \in ReviewPayloads :
           LET result == ReplyCreateResult(user, rrid, review_id, p)
           IN  /\ BaseReviewsAreTopLevel(result.reviews)
               /\ (\/ reviews[review_id].base_reply_to # NULL
                   \/ reviews[review_id].review_request # rrid) =>
                      /\ result.code = DOES_NOT_EXIST
                      /\ result.reviews = reviews

\* C38 witness: a reply has been created under a review of review request
\* 2 while review request 1 exists, and it is on review request 2
ReplyCreatedUnderItsReviewRequest ==
    /\ resp.op = "reply_create"
    /\ resp.code = CREATED
    /\ resp.id \in DOMAIN reviews
    /\ reviews[resp.id].base_reply_to \in DOMAIN reviews
    /\ reviews[resp.id].review_request = 2
    /\ reviews[reviews[resp.id].base_reply_to].review_request = 2

-----------------------------------------------------------------------------
(* Reading comments: the lists and gets of the six comment resources *)

\* FileDiffCommentResource.get_queryset: the comments of the review request
\* on a file of the diff revision; the per-file diff of the path is not used
FileDiffCommentQueryset(user, rrid, diff_revision, filediff_id) ==
    {c \in DiffCommentQueryset(user, rrid) :
        diff_revision \in DiffRevisions(FileDiffReviewRequest[comments[c].filediff])}

\* ScreenshotCommentResource.get_queryset
ScreenshotScreenshotCommentQueryset(rrid, screenshot_id) ==
    {c \in ScreenshotCommentQueryset(rrid) :
        screenshot_comments[c].screenshot = screenshot_id}

\* WebAPIResource.get_list without counts-only: the objects of the queryset
CommentListResult(queryset) == [code |-> OK, id |-> NULL, items |-> queryset]

\* WebAPIResource.get: the object of the queryset with the id of the path;
\* the default has_access_permissions allows everyone
CommentGetResult(queryset, comment_id) ==
    IF comment_id \in queryset
    THEN [code |-> OK, id |-> comment_id, items |-> {comment_id}]
    ELSE [code |-> DOES_NOT_EXIST, id |-> comment_id, items |-> {}]

\* the response to a read of comments: as Response, with the user who asked
\* and the ids of the comments in the body
CommentRead(op, user, result) ==
    /\ resp' = [op |-> op, code |-> result.code, id |-> result.id,
                user |-> user, items |-> result.items]
    /\ UNCHANGED <<draft_vars, review_vars, comment_vars, inflight, profiles>>

FileDiffCommentList(user, rrid, diff_revision, filediff_id) ==
    CommentRead("filediff_comment_list", user,
        CommentListResult(FileDiffCommentQueryset(user, rrid, diff_revision,
                                                  filediff_id)))

ReviewDiffCommentList(user, rrid, review_id) ==
    CommentRead("diff_comment_list", user,
        CommentListResult(ReviewDiffCommentQueryset(user, rrid, review_id)))

ReviewDiffCommentGet(user, rrid, review_id, comment_id) ==
    CommentRead("diff_comment_get", user,
        CommentGetResult(ReviewDiffCommentQueryset(user, rrid, review_id),
                         comment_id))

ReplyDiffCommentList(user, rrid, review_id, reply_id) ==
    CommentRead("reply_diff_comment_list", user,
        CommentListResult(ReviewReplyDiffCommentQueryset(user, rrid, review_id,
                                                         reply_id)))

ReplyDiffCommentGet(user, rrid, review_id, reply_id, comment_id) ==
    CommentRead("reply_diff_comment_get", user,
        CommentGetResult(ReviewReplyDiffCommentQueryset(user, rrid, review_id,
                                                        reply_id), comment_id))

ScreenshotCommentList(user, rrid, screenshot_id) ==
    CommentRead("screenshot_comment_list", user,
        CommentListResult(ScreenshotScreenshotCommentQueryset(rrid, screenshot_id)))

ReviewScreenshotCommentList(user, rrid, review_id) ==
    CommentRead("review_screenshot_comment_list", user,
        CommentListResult(ReviewScreenshotCommentQueryset(rrid, review_id)))

ReviewScreenshotCommentGet(user, rrid, review_id, comment_id) ==
    CommentRead("review_screenshot_comment_get", user,
        CommentGetResult(ReviewScreenshotCommentQueryset(rrid, review_id),
                         comment_id))

ReplyScreenshotCommentList(user, rrid, review_id, reply_id) ==
    CommentRead("reply_screenshot_comment_list", user,
        CommentListResult(ReviewReplyScreenshotCommentQueryset(rrid, review_id,
                                                               reply_id)))

ReplyScreenshotCommentGet(user, rrid, review_id, reply_id, comment_id) ==
    CommentRead("reply_screenshot_comment_get", user,
        CommentGetResult(ReviewReplyScreenshotCommentQueryset(rrid, review_id,
                                                              reply_id),
                         comment_id))

\* the comment read specification: alice's review 1 and bob's reply 2 to it,
\* pending at first; comments are created on them, the two are published,
\* and both users read the comments through every comment resource
CommentWriteStep ==
    \E user \in Users, review_id \in {1, 2} :
        \/ \E filediff_id \in {1, 2} :
               DiffCommentCreate(user, 1, review_id, filediff_id, NULL,
                                 DiffCommentCreatePayload)
        \/ ScreenshotCommentCreate(user, 1, review_id, 1,
                                   ScreenshotCommentCreatePayload)
        \/ \E comment_id \in CommentIds :
               ReplyDiffCommentCreate(user, 1, 1, review_id, comment_id, "r")
        \/ \E comment_id \in CommentIds :
               ReplyScreenshotCommentCreate(user, 1, 1, review_id, comment_id, "r")
        \/ ReviewUpdate(user, 1, 1, PublishPayload)
        \/ ReplyUpdate(user, 1, 1, 2, PublishPayload)

DiffCommentReadStep ==
    \E user \in Users, rrid \in {1, 2}, review_id \in {1, 2} :
        \/ \E filediff_id \in {1, 2} : FileDiffCommentList(user, rrid, 1, filediff_id)
        \/ ReviewDiffCommentList(user, rrid, review_id)
        \/ \E comment_id \in CommentIds :
               ReviewDiffCommentGet(user, rrid, review_id, comment_id)
        \/ ReplyDiffCommentList(user, rrid, 1, review_id)
        \/ \E comment_id \in CommentIds :
               ReplyDiffCommentGet(user, rrid, 1, review_id, comment_id)

ScreenshotCommentReadStep ==
    \E user \in Users, rrid \in {1, 2}, review_id \in {1, 2} :
        \/ \E screenshot_id \in {1, 2} :
               ScreenshotCommentList(user, rrid, screenshot_id)
        \/ ReviewScreenshotCommentList(user, rrid, review_id)
        \/ \E comment_id \in CommentIds :
               ReviewScreenshotCommentGet(user, rrid, review_id, comment_id)
        \/ ReplyScreenshotCommentList(user, rrid, 1, review_id)
        \/ \E comment_id \in CommentIds :
               ReplyScreenshotCommentGet(user, rrid, 1, review_id, comment_id)

NextCommentRead ==
    CommentWriteStep \/ DiffCommentReadStep \/ ScreenshotCommentReadStep

SpecCommentRead == InitComment /\ [][NextCommentRead]_vars

\* comment c is on review r, and r is on review request rrid
OnReviewOf(cs, c, r, rrid) ==
    /\ cs[c].review = r
    /\ r \in DOMAIN reviews
    /\ reviews[r].review_request = rrid

\* every comment read, updated or deleted through a review or a reply is on
\* that review or reply, the reply replies to the review of the path, and
\* both are on the review request of the path; a screenshot comment listed
\* under a screenshot is on that screenshot
CommentsBelongToReviewOfPath ==
    \A user \in Users, rrid \in DOMAIN review_requests, review_id \in DOMAIN reviews :
        /\ \A c \in ReviewDiffCommentQueryset(user, rrid, review_id) :
               OnReviewOf(comments, c, review_id, rrid)
        /\ \A c \in ReviewScreenshotCommentQueryset(rrid, review_id) :
               OnReviewOf(screenshot_comments, c, review_id, rrid)
        /\ \A reply_id \in DOMAIN reviews :
               /\ \A c \in ReviewReplyDiffCommentQueryset(user, rrid, review_id,
                                                          reply_id) :
                      /\ OnReviewOf(comments, c, reply_id, rrid)
                      /\ reviews[reply_id].base_reply_to = review_id
               /\ \A c \in ReviewReplyScreenshotCommentQueryset(rrid, review_id,
                                                                reply_id) :
                      /\ OnReviewOf(screenshot_comments, c, reply_id, rrid)
                      /\ reviews[reply_id].base_reply_to = review_id
        /\ \A c \in DOMAIN comments, p \in DiffCommentPayloads :
               /\ DiffCommentUpdateResult(user, rrid, review_id, c, p).code = OK =>
                      OnReviewOf(comments, c, review_id, rrid)
               /\ DiffCommentDeleteResult(user, rrid, review_id, c).code = NO_CONTENT =>
                      OnReviewOf(comments, c, review_id, rrid)
        /\ \A screenshot_id \in DOMAIN ScreenshotReviewRequest :
               \A c \in ScreenshotScreenshotCommentQueryset(rrid, screenshot_id) :
                   /\ screenshot_comments[c].screenshot = screenshot_id
                   /\ ScreenshotReviewRequest[screenshot_id] = rrid

\* C32: every object reached through a child resource belongs to the
\* parents named in the path: a comment under a review or reply is on it,
\* and the comments listed under per-file diff F are the comments on F
ChildrenBelongToParentsOfPath ==
    /\ CommentsBelongToReviewOfPath
    /\ \A user \in Users, rrid \in DOMAIN review_requests,
          filediff_id \in DOMAIN FileDiffReviewRequest :
           \A c \in CommentListResult(
                        FileDiffCommentQueryset(user, rrid, 1, filediff_id)).items :
               comments[c].filediff = filediff_id

\* user may see the comments of review r: r is public or the user's own
MaySeeCommentsOf(user, r) ==
    r \in DOMAIN reviews /\ (reviews[r].public \/ reviews[r].user = user)

\* no list or get of diff comments hands a user a comment of a review that
\* is neither public nor the user's own
DiffCommentsOfPendingReviewsHidden ==
    \A user \in Users, rrid \in DOMAIN review_requests, review_id \in DOMAIN reviews :
        /\ \A filediff_id \in DOMAIN FileDiffReviewRequest :
               \A c \in CommentListResult(
                            FileDiffCommentQueryset(user, rrid, 1, filediff_id)).items :
                   MaySeeCommentsOf(user, comments[c].review)
        /\ \A c \in CommentListResult(
                        ReviewDiffCommentQueryset(user, rrid, review_id)).items :
               MaySeeCommentsOf(user, comments[c].review)
        /\ \A c \in DOMAIN comments :
               \A i \in CommentGetResult(
                            ReviewDiffCommentQueryset(user, rrid, review_id), c).items :
                   MaySeeCommentsOf(user, comments[i].review)
        /\ \A reply_id \in DOMAIN reviews :
               \A c \in CommentListResult(
                            ReviewReplyDiffCommentQueryset(user, rrid, review_id,
                                                           reply_id)).items :
                   MaySeeCommentsOf(user, comments[c].review)

\* C36: no list or get of comments, diff comments and screenshot comments
\* alike, under a per-file diff, a screenshot, a review or a reply, hands a
\* user a comment of a review that is not public and not the user's own
CommentsOfPendingReviewsHidden ==
    /\ DiffCommentsOfPendingReviewsHidden
    /\ \A user \in Users, rrid \in DOMAIN review_requests, review_id \in DOMAIN reviews :
           /\ \A screenshot_id \in DOMAIN ScreenshotReviewRequest :
                  \A c \in CommentListResult(
                               ScreenshotScreenshotCommentQueryset(
                                   rrid, screenshot_id)).items :
                      MaySeeCommentsOf(user, screenshot_comments[c].review)
           /\ \A c \in CommentListResult(
                           ReviewScreenshotCommentQueryset(rrid, review_id)).items :
                  MaySeeCommentsOf(user, screenshot_comments[c].review)
           /\ \A c \in DOMAIN screenshot_comments :
                  \A i \in CommentGetResult(
                               ReviewScreenshotCommentQueryset(rrid, review_id),
                               c).items :
                      MaySeeCommentsOf(user, screenshot_comments[i].review)
           /\ \A reply_id \in DOMAIN reviews :
                  \A c \in CommentListResult(
                               ReviewReplyScreenshotCommentQueryset(
                                   rrid, review_id, reply_id)).items :
                      MaySeeCommentsOf(user, screenshot_comments[c].review)

-----------------------------------------------------------------------------
(* Claims on missing targets *)

\* the ids a path can name: those of the rows and one more
PathIds(table) == DOMAIN table \cup {Cardinality(DOMAIN table) + 1, MaxLen + 5}

\* the result of a request on reviews: not found, and no row changed
ReviewNotFound(result) ==
    result.code = DOES_NOT_EXIST /\ result.reviews = reviews

DiffCommentNotFound(result) ==
    result.code = DOES_NOT_EXIST /\ result.comments = comments

ScreenshotCommentNotFound(result) ==
    result.code = DOES_NOT_EXIST
    /\ result.screenshot_comments = screenshot_comments

\* a create, update or delete of a review or reply whose review request,
\* review or reply is missing is answered not found and changes nothing
MissingReviewIsNotFound ==
    \A user \in Users, rrid \in PathIds(review_requests),
       review_id \in PathIds(reviews), p \in ReviewPayloads :
        /\ ~ReviewRequestExists(rrid) =>
               ReviewNotFound(ReviewCreateResult(user, rrid, p))
        /\ ~IsReviewAt(rrid, review_id) =>
               /\ ReviewNotFound(ReviewUpdateResult(user, rrid, review_id, p))
               /\ ReviewNotFound(ReplyCreateResult(user, rrid, review_id, p))
               /\ LET result == ReviewDeleteResult(user, rrid, review_id)
                  IN  ReviewNotFound(result) /\ DiffCommentNotFound(result)
        /\ \A reply_id \in PathIds(reviews) :
               ~IsReplyAt(rrid, review_id, reply_id) =>
                   /\ ReviewNotFound(
                          ReplyUpdateResult(user, rrid, review_id, reply_id, p))
                   /\ ReviewNotFound(
                          ReplyDeleteResult(user, rrid, review_id, reply_id))

\* the same for the comments of a review: a missing review request or
\* review on create, and also a missing comment on update
MissingCommentIsNotFound ==
    \A user \in Users, rrid \in PathIds(review_requests),
       review_id \in PathIds(reviews) :
        /\ ~IsReviewAt(rrid, review_id) =>
               /\ \A filediff_id \in DOMAIN FileDiffReviewRequest :
                      DiffCommentNotFound(
                          DiffCommentCreateResult(user, rrid, review_id, filediff_id,
                                                  NULL, DiffCommentCreatePayload))
               /\ \A screenshot_id \in DOMAIN ScreenshotReviewRequest :
                      ScreenshotCommentNotFound(
                          ScreenshotCommentCreateResult(
                              user, rrid, review_id, screenshot_id,
                              ScreenshotCommentCreatePayload))
        /\ \A c \in PathIds(comments), dp \in DiffCommentPayloads :
               (~IsReviewAt(rrid, review_id) \/ c \notin DOMAIN comments) =>
                   DiffCommentNotFound(
                       DiffCommentUpdateResult(user, rrid, review_id, c, dp))
        /\ \A c \in PathIds(screenshot_comments), sp \in ScreenshotCommentPayloads :
               (~IsReviewAt(rrid, review_id) \/ c \notin DOMAIN screenshot_comments) =>
                   ScreenshotCommentNotFound(
                       ScreenshotCommentUpdateResult(user, rrid, review_id, c, sp))

\* a delete of a comment of a review whose review request, review or
\* comment is missing is answered not found and deletes nothing
MissingCommentIsNotFoundOnDelete ==
    \A user \in Users, rrid \in PathIds(review_requests),
       review_id \in PathIds(reviews) :
        /\ \A c \in PathIds(comments) :
               (~IsReviewAt(rrid, review_id) \/ c \notin DOMAIN comments) =>
                   DiffCommentNotFound(
                       DiffCommentDeleteResult(user, rrid, review_id, c))
        /\ \A c \in PathIds(screenshot_comments) :
               (~IsReviewAt(rrid, review_id) \/ c \notin DOMAIN screenshot_comments) =>
                   ScreenshotCommentNotFound(
                       ScreenshotCommentDeleteResult(user, rrid, review_id, c))

\* the same for the comments of a reply
MissingReplyCommentIsNotFound ==
    \A user \in Users, rrid \in PathIds(review_requests),
       review_id \in PathIds(reviews), reply_id \in PathIds(reviews) :
        /\ ~IsReplyAt(rrid, review_id, reply_id) =>
               /\ \A c \in DOMAIN comments :
                      DiffCommentNotFound(
                          ReplyDiffCommentCreateResult(user, rrid, review_id,
                                                       reply_id, c, "r"))
               /\ \A c \in DOMAIN screenshot_comments :
                      ScreenshotCommentNotFound(
                          ReplyScreenshotCommentCreateResult(user, rrid, review_id,
                                                             reply_id, c, "r"))
        /\ \A c \in PathIds(comments) :
               (~IsReplyAt(rrid, review_id, reply_id) \/ c \notin DOMAIN comments) =>
                   /\ DiffCommentNotFound(
                          ReplyDiffCommentUpdateResult(user, rrid, review_id,
                                                       reply_id, c, "s"))
                   /\ DiffCommentNotFound(
                          ReplyDiffCommentDeleteResult(user, rrid, review_id,
                                                       reply_id, c))
        /\ \A c \in PathIds(screenshot_comments) :
               (~IsReplyAt(rrid, review_id, reply_id)
                    \/ c \notin DOMAIN screenshot_comments) =>
                   /\ ScreenshotCommentNotFound(
                          ReplyScreenshotCommentUpdateResult(user, rrid, review_id,
                                                             reply_id, c, "s"))
                   /\ ScreenshotCommentNotFound(
                          ReplyScreenshotCommentDeleteResult(user, rrid, review_id,
                                                             reply_id, c))

\* a star or unstar that names a missing object or a missing user is
\* answered not found and leaves every Profile as it is
MissingWatchedObjectIsNotFound ==
    \A kind \in Kinds, user \in Users, username \in Usernames,
       object_id \in ObjectIds :
        (watched_get_object(kind, user, object_id) = {} \/ username \notin Users) =>
            /\ WatchedCreateResult(profiles, kind, user, username, object_id)
                   = WatchedUnchanged(profiles, DOES_NOT_EXIST)
            /\ WatchedDeleteResult(profiles, kind, user, username, object_id)
                   = WatchedUnchanged(profiles, DOES_NOT_EXIST)

\* C31: a mutating request on a draft, review, reply, comment or watch
\* entry whose target, or an ancestor of it in the path, does not exist is
\* answered not found, not permission denied or invalid input, and changes
\* no state: no Draft and no Review is created
MissingTargetIsNotFound ==
    /\ MissingReviewIsNotFound
    /\ MissingCommentIsNotFound
    /\ MissingCommentIsNotFoundOnDelete
    /\ MissingReplyCommentIsNotFound
    /\ MissingWatchedObjectIsNotFound
    /\ \A user \in Users, rrid \in PathIds(review_requests) :
           /\ DraftsOf(drafts, rrid) = {} =>
                  DraftDeleteResult(user, rrid) = Unchanged(DOES_NOT_EXIST, NULL)
           /\ ~ReviewRequestExists(rrid) =>
                  \A p \in EditPayloads :
                      /\ DraftUpdateResult(user, rrid, p, FALSE)
                             = Unchanged(DOES_NOT_EXIST, NULL)
                      /\ DraftCreateResult(user, rrid, p)
                             = Unchanged(DOES_NOT_EXIST, NULL)

====
